---- MODULE Spec2Model ----
(***************************************************************************)
(* Storage / indexing layer of the RSS reader backend: single-table keys   *)
(* and index projections, the retention sweeps, the feed cascade, score    *)
(* recalculation, feed ingestion and the keyword-embedding cache.          *)
(*                                                                         *)
(* Python strings that are compared by the store (index sort keys) are     *)
(* modelled as sequences of one-character strings ordered by code point,   *)
(* so that lexicographic order is computed, not assumed.                   *)
(***************************************************************************)
EXTENDS Integers, Sequences, FiniteSets, TLC

(***************************************************************************)
(* Bounds of the model.                                                    *)
(***************************************************************************)
NumArticles == 3     \* article ids 1..NumArticles
NumKeywords == 2     \* keyword ids 1..NumKeywords
StorePage == 2       \* items after which the store cuts a response page
BATCH_SIZE == 2      \* settings.BATCH_SIZE as configured (BATCH_SIZE env)
ScoreOne == 4        \* score resolution: the float 1.0 is ScoreOne units
MaxEntries == 2      \* entries in one fetched document
KEYWORD_EMBEDDING_CACHE_SIZE == 2   \* settings.KEYWORD_EMBEDDING_CACHE_SIZE as configured

ArticleIds == 1..NumArticles
KeywordIds == 1..NumKeywords
FeedIds == {1, 2}
Secs == {1, 2, 3}    \* values of the fixed-width date-time-to-seconds field
Micros == {0, 1}     \* microsecond field: 0 (omitted by isoformat) or not
Windows == {0, 1}    \* days / hours arguments tried; one unit is one tick of s

(***************************************************************************)
(* Helpers over sequences and sets.                                        *)
(***************************************************************************)
Range(s) == {s[i] : i \in DOMAIN s}

Min(a, b) == IF a <= b THEN a ELSE b

Max(a, b) == IF a >= b THEN a ELSE b

Some(x) == <<x>>

None == <<>>

Optional(S) == {None} \cup {Some(x) : x \in S}

(***************************************************************************)
(* Python str: code points and lexicographic comparison.                   *)
(***************************************************************************)
DigitChars == <<"0", "1", "2", "3", "4", "5", "6", "7", "8", "9">>

Digit(n) == DigitChars[n + 1]

Ord(c) ==
    CASE c = "#" -> 35
      [] c = "+" -> 43
      [] c = "." -> 46
      [] c \in Range(DigitChars) -> 47 + (CHOOSE i \in 1..10 : DigitChars[i] = c)
      [] c = ":" -> 58
      [] c = "Z" -> 90
      [] c = "e" -> 101
      [] c = "r" -> 114
      [] c = "t" -> 116
      [] c = "u" -> 117

RECURSIVE StrLess(_, _)
StrLess(a, b) ==
    IF b = <<>> THEN FALSE
    ELSE IF a = <<>> THEN TRUE
    ELSE IF Ord(Head(a)) # Ord(Head(b)) THEN Ord(Head(a)) < Ord(Head(b))
    ELSE StrLess(Tail(a), Tail(b))

(***************************************************************************)
(* datetime.  s is the fixed-width part of the ISO string (date and time   *)
(* to the second), us the microseconds, tz whether the value is            *)
(* timezone-aware (UTC).  Instant is the point in time it denotes.         *)
(***************************************************************************)
Datetime(s, us, tz) == [s |-> s, us |-> us, tz |-> tz]

Instant(dt) == dt.s * 10 + dt.us

\* datetime.isoformat(): microseconds are printed only when non-zero, the
\* offset only for aware values.
isoformat(dt) ==
    <<Digit(dt.s)>>
      \o (IF dt.us = 0 THEN <<>> ELSE <<".", Digit(dt.us)>>)
      \o (IF dt.tz THEN <<"+", "0", "0", ":", "0", "0">> ELSE <<>>)

\* str.endswith
EndsWith(str, suffix) ==
    /\ Len(str) >= Len(suffix)
    /\ SubSeq(str, Len(str) - Len(suffix) + 1, Len(str)) = suffix

UtcOffset == <<"+", "0", "0", ":", "0", "0">>

\* datetime.fromisoformat: None stands for ValueError.
fromisoformat(str) ==
    LET parsed == {dt \in {Datetime(s, us, tz) : s \in 0..9, us \in 0..9, tz \in BOOLEAN} :
                      isoformat(dt) = str}
    IN  IF parsed = {} THEN None ELSE Some(CHOOSE dt \in parsed : TRUE)

\* parse_datetime_string: the result is timezone-aware; None stands for
\* ValueError.
parse_datetime_string(dt_str) ==
    IF dt_str = <<>> THEN None
    ELSE LET str == IF EndsWith(dt_str, UtcOffset \o UtcOffset)
                    THEN SubSeq(dt_str, 1, Len(dt_str) - 6)
                    ELSE dt_str
         IN  IF EndsWith(str, UtcOffset) THEN fromisoformat(str)
             ELSE IF EndsWith(str, <<"Z">>)
             THEN fromisoformat(SubSeq(str, 1, Len(str) - 1) \o UtcOffset)
             ELSE IF \E i \in (Len(str) - 5)..Len(str) : i >= 1 /\ str[i] \in {"+", "-"}
             THEN fromisoformat(str)
             ELSE fromisoformat(str \o UtcOffset)

\* datetime.now() - timedelta(...): only the seconds field moves.
MinusTicks(dt, n) == Datetime(dt.s - n, dt.us, dt.tz)

(***************************************************************************)
(* Key / index model.  PK is <<entity, id>>, SK is <<kind, id>>.           *)
(***************************************************************************)
ArticlePK(article_id) == <<"ARTICLE", article_id>>

MetadataSK == <<"METADATA", 0>>

ReasonSK(keyword_id) == <<"REASON", keyword_id>>

RECURSIVE DecDigits(_)
DecDigits(n) == IF n < 10 THEN <<Digit(n)>> ELSE DecDigits(n \div 10) \o <<Digit(n % 10)>>

RECURSIVE ZeroPad(_, _)
ZeroPad(ds, width) == IF Len(ds) >= width THEN ds ELSE ZeroPad(<<"0">> \o ds, width)

SCORE_PRECISION == 1000000

\* int(a * b / c) and the remainder, for a, b >= 0 and c > 0, by doubling:
\* the product itself is never formed (it does not fit the integers of
\* the checker).
RECURSIVE MulDivMod(_, _, _)
MulDivMod(a, b, c) ==
    IF b = 0 THEN <<0, 0>>
    ELSE LET half == MulDivMod(a, b \div 2, c)
             add == IF b % 2 = 1 THEN a ELSE 0
             rem == ((2 * half[2]) % c) + (add % c)
         IN  <<(2 * half[1]) + ((2 * half[2]) \div c) + (add \div c) + (rem \div c),
               rem % c>>

\* Mutant: a score outside the range is clamped into it.
generate_reverse_sort_key_clamped(score, max_score, unit) ==
    LET clamped == Max(0, Min(score, max_score))
        score_scaled == MulDivMod(clamped, SCORE_PRECISION, unit)[1]
        reverse_score == SCORE_PRECISION - score_scaled
    IN  Some(ZeroPad(DecDigits(reverse_score), 7) \o <<".", "0", "0", "0", "0", "0", "0">>)

\* Mutant: the integer part is padded to six digits.
generate_reverse_sort_key_06d(score, max_score, unit) ==
    IF score < 0 \/ score > max_score THEN None
    ELSE LET score_scaled == MulDivMod(score, SCORE_PRECISION, unit)[1]
             reverse_score == SCORE_PRECISION - score_scaled
         IN  Some(ZeroPad(DecDigits(reverse_score), 6)
                    \o <<".", "0", "0", "0", "0", "0", "0">>)

\* BaseModel.generate_reverse_sort_key(score, max_score); the two floats
\* are counted in units of 1/unit, None stands for ValueError.
generate_reverse_sort_key(score, max_score, unit) ==
    IF score < 0 \/ score > max_score THEN None
    ELSE LET score_scaled == MulDivMod(score, SCORE_PRECISION, unit)[1]
             reverse_score == SCORE_PRECISION - score_scaled
         IN  Some(ZeroPad(DecDigits(reverse_score), 7)
                    \o <<".", "0", "0", "0", "0", "0", "0">>)

\* DynamoDBClient._generate_reverse_sort_key(score, max_score): the same
\* with the format 06d.
client_generate_reverse_sort_key(score, max_score, unit) ==
    IF score < 0 \/ score > max_score THEN None
    ELSE LET score_scaled == MulDivMod(score, SCORE_PRECISION, unit)[1]
             reverse_score == SCORE_PRECISION - score_scaled
         IN  Some(ZeroPad(DecDigits(reverse_score), 6)
                    \o <<".", "0", "0", "0", "0", "0", "0">>)

\* Article.generate_gsi1_sk
generate_gsi1_sk(article) == isoformat(article.published_at) \o <<"Z">>

\* Article.generate_gsi3_sk
generate_gsi3_sk(article) == isoformat(article.created_at) \o <<"Z">>

\* Article.generate_gsi4_pk / generate_gsi4_sk: None for an unread article.
generate_gsi4_pk(article) == IF article.is_read THEN Some("ARTICLE_READ") ELSE None

generate_gsi4_sk(article) ==
    IF article.is_read /\ article.read_at # None
    THEN Some(<<"t", "r", "u", "e", "#">> \o isoformat(article.read_at[1]) \o <<"Z">>)
    ELSE None

\* An Article object: the fields the storage layer keys on.  published_at
\* is the time of creation unless the feed entry carries a date.
Article(article_id, feed_id, link, created_at, is_read, read_at, is_saved, score) ==
    [article_id |-> article_id, feed_id |-> feed_id, link |-> link,
     published_at |-> created_at,
     created_at |-> created_at, is_read |-> is_read, read_at |-> read_at,
     is_saved |-> is_saved, importance_score |-> score]

\* Article.to_dynamodb_item: GSI4 keys are written only for a read article.
ArticleItem(article) ==
    LET item == [PK |-> ArticlePK(article.article_id),
                 SK |-> MetadataSK,
                 EntityType |-> "Article",
                 article_id |-> article.article_id,
                 feed_id |-> article.feed_id,
                 link |-> article.link,
                 published_at |-> isoformat(article.published_at) \o <<"Z">>,
                 created_at |-> isoformat(article.created_at) \o <<"Z">>,
                 is_read |-> article.is_read,
                 read_at |-> IF article.read_at = None THEN None
                             ELSE Some(isoformat(article.read_at[1]) \o <<"Z">>),
                 is_saved |-> article.is_saved,
                 importance_score |-> article.importance_score,
                 GSI1PK |-> "ARTICLE",
                 GSI1SK |-> generate_gsi1_sk(article),
                 GSI2PK |-> "ARTICLE",
                 GSI2SK |-> generate_reverse_sort_key(article.importance_score,
                                                      ScoreOne, ScoreOne)[1],
                 GSI3PK |-> "ARTICLE",
                 GSI3SK |-> generate_gsi3_sk(article),
                 GSI5PK |-> <<"FEED", article.feed_id>>,
                 GSI5SK |-> ArticlePK(article.article_id)]
        gsi4_pk == generate_gsi4_pk(article)
        gsi4_sk == generate_gsi4_sk(article)
    IN  IF gsi4_pk # None /\ gsi4_sk # None
        THEN item @@ [GSI4PK |-> gsi4_pk[1], GSI4SK |-> gsi4_sk[1]]
        ELSE item

\* ImportanceScoreService._create_importance_reason
ReasonItem(article_id, keyword_id, keyword_text, similarity, contribution) ==
    [PK |-> ArticlePK(article_id),
     SK |-> ReasonSK(keyword_id),
     EntityType |-> "ImportanceReason",
     article_id |-> article_id,
     keyword_id |-> keyword_id,
     keyword_text |-> keyword_text,
     similarity_score |-> similarity,
     contribution |-> contribution]

(***************************************************************************)
(* The table and the storage client.                                       *)
(***************************************************************************)
KeyOf(item) == [PK |-> item.PK, SK |-> item.SK]

\* table.put_item: upsert by (PK, SK), last writer wins.
PutItem(t, item) == {i \in t : KeyOf(i) # KeyOf(item)} \cup {item}

\* Mutant: the key attributes are swapped, so nothing matches.
DeleteItemSwappedKey(t, key) == {i \in t : KeyOf(i) # [PK |-> key.SK, SK |-> key.PK]}

\* table.delete_item: deleting an absent key is a no-op.
DeleteItem(t, key) == {i \in t : KeyOf(i) # key}

\* DynamoDBClient.get_item
get_item(t, pk, sk) ==
    LET hit == {i \in t : i.PK = pk /\ i.SK = sk}
    IN  IF hit = {} THEN None ELSE Some(CHOOSE i \in hit : TRUE)

IndexPkAttr(index_name) ==
    CASE index_name = "TABLE" -> "PK"
      [] index_name = "GSI1" -> "GSI1PK"
      [] index_name = "GSI3" -> "GSI3PK"
      [] index_name = "GSI4" -> "GSI4PK"
      [] index_name = "GSI5" -> "GSI5PK"

IndexSkAttr(index_name) ==
    CASE index_name = "TABLE" -> "SK"
      [] index_name = "GSI1" -> "GSI1SK"
      [] index_name = "GSI3" -> "GSI3SK"
      [] index_name = "GSI4" -> "GSI4SK"
      [] index_name = "GSI5" -> "GSI5SK"

\* Order of two sort-key values of one index: strings by code point,
\* <<kind, id>> keys by id.
SkLess(index_name, a, b) ==
    IF index_name \in {"GSI3", "GSI4"} THEN StrLess(a, b) ELSE a[2] < b[2]

KeyLess(a, b) ==
    IF a.PK[2] # b.PK[2] THEN a.PK[2] < b.PK[2] ELSE a.SK[2] < b.SK[2]

\* Position of an item in an index: index sort key, then primary key.
IndexLess(index_name, a, b) ==
    LET ka == a[IndexSkAttr(index_name)]
        kb == b[IndexSkAttr(index_name)]
    IN  IF ka # kb THEN SkLess(index_name, ka, kb) ELSE KeyLess(KeyOf(a), KeyOf(b))

\* Key conditions on the sort key used by the services.
SkCondition(index_name, cond, k) ==
    CASE cond.op = "any" -> TRUE
      [] cond.op = "lt" -> SkLess(index_name, k, cond.v)
      [] cond.op = "begins_with" -> k[1] = cond.v

RECURSIVE SortItems(_, _)
SortItems(index_name, S) ==
    IF S = {} THEN <<>>
    ELSE LET m == CHOOSE x \in S : \A y \in S \ {x} : IndexLess(index_name, x, y)
         IN  <<m>> \o SortItems(index_name, S \ {m})

\* The cursor of a page: the index position of its last item.
LastEvaluatedKey(index_name, item) ==
    [sk |-> item[IndexSkAttr(index_name)], PK |-> item.PK, SK |-> item.SK]

AfterCursor(index_name, cursor, item) ==
    LET k == item[IndexSkAttr(index_name)]
    IN  IF k # cursor.sk THEN SkLess(index_name, cursor.sk, k)
        ELSE KeyLess([PK |-> cursor.PK, SK |-> cursor.SK], KeyOf(item))

\* DynamoDBClient.query on one partition of one index, ascending.  The
\* store returns at most page_cap items per response (and at most limit).
\* The responses the store can give: when it stops exactly at the end of
\* the range after a full page it may or may not return a cursor.
query(t, index_name, pk_value, cond, limit, exclusive_start_key, page_cap) ==
    LET pk == IndexPkAttr(index_name)
        sk == IndexSkAttr(index_name)
        matching == {i \in t : /\ pk \in DOMAIN i
                               /\ i[pk] = pk_value
                               /\ SkCondition(index_name, cond, i[sk])
                               /\ \/ exclusive_start_key = None
                                  \/ AfterCursor(index_name, exclusive_start_key[1], i)}
        rest == SortItems(index_name, matching)
        size == IF limit = None THEN page_cap ELSE Min(limit[1], page_cap)
        page == SubSeq(rest, 1, Min(size, Len(rest)))
        cursor == Some(LastEvaluatedKey(index_name, page[Len(page)]))
    IN  IF Len(rest) > size THEN {[items |-> page, last_evaluated_key |-> cursor]}
        ELSE IF Len(rest) = size
        THEN {[items |-> page, last_evaluated_key |-> cursor],
              [items |-> page, last_evaluated_key |-> None]}
        ELSE {[items |-> page, last_evaluated_key |-> None]}

\* DynamoDBClient.query_importance_reasons_for_article: one request, the
\* cursor is dropped.  All reasons of one article fit one response.
query_importance_reasons_for_article(t, article_id) ==
    LET resp == CHOOSE r \in query(t, "TABLE", ArticlePK(article_id),
                                   [op |-> "begins_with", v |-> "REASON"],
                                   None, None, NumKeywords) : TRUE
    IN  resp.items

\* A write request of a batch.
PutRequest(item) == [op |-> "put", item |-> item]

DeleteRequest(key) == [op |-> "delete", key |-> key]

ApplyRequest(t, req) ==
    IF req.op = "put" THEN PutItem(t, req.item) ELSE DeleteItem(t, req.key)

\* The requests batch_write_item sends: the puts, then the deletes.
batch_write_item(items, delete_keys) ==
    [i \in 1..Len(items) |-> PutRequest(items[i])]
      \o [i \in 1..Len(delete_keys) |-> DeleteRequest(delete_keys[i])]

\* Mutant: the last reason of the article is left out of the batch.
delete_importance_reasons_but_last(t, article_id) ==
    LET reasons == query_importance_reasons_for_article(t, article_id)
    IN  [i \in 1..(Len(reasons) - 1) |-> KeyOf(reasons[i])]

\* DynamoDBClient.delete_importance_reasons_for_article: the delete keys it
\* batches (its return value is their number).
delete_importance_reasons_for_article(t, article_id) ==
    LET reasons == query_importance_reasons_for_article(t, article_id)
    IN  [i \in 1..Len(reasons) |-> KeyOf(reasons[i])]

(***************************************************************************)
(* State.                                                                  *)
(***************************************************************************)
VARIABLES
    table,      \* the single table: a set of items, one per (PK, SK)
    now,        \* datetime.now()
    sweep,      \* the running cleanup sweep or feed cascade (its locals)
    table0,     \* the table when the running operation started
    lastRun,    \* the sweep that completed before the running one
    recalc,     \* the running recalculate_score call (its locals)
    fetch,      \* the running fetch_feed call (its locals)
    cache,      \* _keyword_embedding_cache, oldest entry first
    threads,    \* the get_keyword_embedding call of each thread
    lock,       \* _keyword_embedding_cache_lock: its holder, if any
    client,     \* the DynamoDBClient call in progress, seen from the store
    key_call,   \* the reverse sort keys generated for two scores
    svc,        \* the ArticleService call in progress
    lru,        \* history: order of last use, of insertion, last eviction
    parked      \* the calls of the other thread, suspended between two requests

vars == <<table, now, sweep, table0, lastRun, recalc, fetch, cache, threads, lock, client,
          key_call, svc, lru, parked>>

\* The variables the sweeps and the cascade never touch.
notSweep ==
    <<recalc, fetch, cache, threads, lock, client, key_call, svc, lru, parked>>

\* The variables recalculate_score never touches.
notRecalc ==
    <<now, sweep, lastRun, fetch, cache, threads, lock, client, key_call, svc, lru, parked>>

\* The variables fetch_feed never touches.
notFetch ==
    <<now, sweep, table0, lastRun, recalc, cache, threads, lock, client, key_call, svc, lru,
      parked>>

\* The variables the keyword-embedding cache never touches.
notCache ==
    <<table, now, sweep, table0, lastRun, recalc, fetch, client, key_call, svc, parked>>

\* The variables a single DynamoDBClient call never touches.
notClient ==
    <<now, sweep, lastRun, recalc, fetch, cache, threads, lock, key_call, svc, lru, parked>>

(***************************************************************************)
(* CleanupService sweeps and the FeedService cascade.  One step per        *)
(* storage request; a batch write applies its requests one at a time.      *)
(***************************************************************************)
Runs == {1, 2}

IdleSweep ==
    [pc |-> "idle", kind |-> "none", param |-> 0, index_name |-> "TABLE",
     pk_value |-> <<"NONE", 0>>, cond |-> [op |-> "any"], limit |-> None,
     last_evaluated_key |-> None, page |-> <<>>, delete_keys |-> <<>>,
     deleted_articles |-> 0, deleted_reasons |-> 0, reasons_ret |-> 0,
     batch |-> <<>>, ret |-> "idle", result |-> None, error |-> None, run |-> 1]

NoRun == [kind |-> "none", param |-> 0, now |-> Datetime(0, 0, FALSE), result |-> None]

\* Mutant: the loop stops after the first page, whatever the cursor.
LoopNextFirstPageOnly(page, last_evaluated_key) ==
    IF page # <<>> THEN "item" ELSE "final"

\* Mutant: the while loop does not break when no cursor came back.
LoopNextNeverBreaks(page, last_evaluated_key) ==
    IF page # <<>> THEN "item" ELSE "query"

\* Where the for / while loops of _delete_articles_by_query (and of
\* _delete_feed_related_data) continue once the current item is done.
LoopNext(page, last_evaluated_key) ==
    IF page # <<>> THEN "item"
    ELSE IF last_evaluated_key = None THEN "final"
    ELSE "query"

\* CleanupService.delete_articles_by_age, up to the first query.
delete_articles_by_age(days) ==
    /\ sweep.pc = "idle"
    /\ IF days <= 0
       THEN sweep' = [sweep EXCEPT !.pc = "raised", !.kind = "age", !.param = days]
       ELSE LET cutoff_date == MinusTicks(now, days)
            IN  sweep' = [sweep EXCEPT
                    !.pc = "query", !.kind = "age", !.param = days,
                    !.index_name = "GSI3", !.pk_value = "ARTICLE",
                    !.cond = [op |-> "lt", v |-> isoformat(cutoff_date) \o <<"Z">>],
                    !.limit = Some(BATCH_SIZE)]
    /\ table0' = table
    /\ UNCHANGED <<table, now, lastRun, notSweep>>

\* CleanupService.delete_read_articles, up to the first query.
delete_read_articles(hours) ==
    /\ sweep.pc = "idle"
    /\ IF hours <= 0
       THEN sweep' = [sweep EXCEPT !.pc = "raised", !.kind = "read", !.param = hours]
       ELSE LET cutoff_datetime == MinusTicks(now, hours)
                cutoff_key == <<"t", "r", "u", "e", "#">>
                                \o isoformat(cutoff_datetime) \o <<"Z">>
            IN  sweep' = [sweep EXCEPT
                    !.pc = "query", !.kind = "read", !.param = hours,
                    !.index_name = "GSI4", !.pk_value = "ARTICLE_READ",
                    !.cond = [op |-> "lt", v |-> cutoff_key],
                    !.limit = Some(BATCH_SIZE)]
    /\ table0' = table
    /\ UNCHANGED <<table, now, lastRun, notSweep>>

StartAgeSweep == \E days \in Windows : delete_articles_by_age(days)

StartReadSweep == \E hours \in Windows : delete_read_articles(hours)

\* The query at the head of the while loop.  The sweeps leave the loop on
\* an empty page; the cascade only on a missing cursor.
SweepQuery ==
    /\ sweep.pc = "query"
    /\ \E resp \in query(table, sweep.index_name, sweep.pk_value, sweep.cond,
                         sweep.limit, sweep.last_evaluated_key, StorePage) :
          sweep' = [sweep EXCEPT
              !.last_evaluated_key = resp.last_evaluated_key,
              !.page = resp.items,
              !.pc = IF sweep.kind # "feed" /\ resp.items = <<>> THEN "final"
                     ELSE LoopNext(resp.items, resp.last_evaluated_key)]
    /\ UNCHANGED <<table, now, table0, lastRun, notSweep>>

\* for item in items: delete the reasons of the article first.
SweepItemReasons ==
    /\ sweep.pc = "item"
    /\ LET item == Head(sweep.page)
           keys == delete_importance_reasons_for_article(table, item.article_id)
       IN  IF "article_id" \in DOMAIN item /\ keys # <<>>
           THEN sweep' = [sweep EXCEPT !.pc = "batch", !.ret = "append",
                                       !.batch = batch_write_item(<<>>, keys),
                                       !.reasons_ret = Len(keys)]
           ELSE sweep' = [sweep EXCEPT !.pc = "append", !.reasons_ret = 0]
    /\ UNCHANGED <<table, now, table0, lastRun, notSweep>>

\* DynamoDBClient.batch_write_item: the next request of the batch reaches
\* the table; the caller continues after the last one.
SweepBatchWrite ==
    /\ sweep.pc = "batch"
    /\ table' = ApplyRequest(table, Head(sweep.batch))
    /\ sweep' = [sweep EXCEPT !.batch = Tail(sweep.batch),
                              !.pc = IF Tail(sweep.batch) = <<>> THEN sweep.ret
                                     ELSE "batch"]
    /\ UNCHANGED <<now, table0, lastRun, notSweep>>

\* Count the reasons, queue the article key, flush a full batch.
SweepItemAppend ==
    /\ sweep.pc = "append"
    /\ LET item == Head(sweep.page)
           delete_keys == Append(sweep.delete_keys, KeyOf(item))
       IN  IF Len(delete_keys) >= BATCH_SIZE
           THEN sweep' = [sweep EXCEPT
                    !.deleted_reasons = @ + sweep.reasons_ret,
                    !.delete_keys = delete_keys,
                    !.pc = "batch", !.ret = "flushed",
                    !.batch = batch_write_item(<<>>, delete_keys)]
           ELSE sweep' = [sweep EXCEPT
                    !.deleted_reasons = @ + sweep.reasons_ret,
                    !.delete_keys = delete_keys,
                    !.page = Tail(sweep.page),
                    !.pc = LoopNext(Tail(sweep.page), sweep.last_evaluated_key)]
    /\ UNCHANGED <<table, now, table0, lastRun, notSweep>>

\* After the flush inside the loop.
SweepFlushed ==
    /\ sweep.pc = "flushed"
    /\ sweep' = [sweep EXCEPT
           !.deleted_articles = @ + Len(sweep.delete_keys),
           !.delete_keys = <<>>,
           !.page = Tail(sweep.page),
           !.pc = LoopNext(Tail(sweep.page), sweep.last_evaluated_key)]
    /\ UNCHANGED <<table, now, table0, lastRun, notSweep>>

\* After the loop: flush the remainder.
SweepFinal ==
    /\ sweep.pc = "final"
    /\ IF sweep.delete_keys # <<>>
       THEN sweep' = [sweep EXCEPT !.pc = "batch", !.ret = "final_flushed",
                                   !.batch = batch_write_item(<<>>, sweep.delete_keys)]
       ELSE sweep' = [sweep EXCEPT !.pc = "return"]
    /\ UNCHANGED <<table, now, table0, lastRun, notSweep>>

SweepFinalFlushed ==
    /\ sweep.pc = "final_flushed"
    /\ sweep' = [sweep EXCEPT !.deleted_articles = @ + Len(sweep.delete_keys),
                              !.pc = "return"]
    /\ UNCHANGED <<table, now, table0, lastRun, notSweep>>

\* return deleted_articles, deleted_reasons
SweepReturn ==
    /\ sweep.pc = "return"
    /\ sweep.kind \in {"age", "read"}
    /\ sweep' = [sweep EXCEPT
           !.pc = "done",
           !.result = Some(<<sweep.deleted_articles, sweep.deleted_reasons>>)]
    /\ UNCHANGED <<table, now, table0, lastRun, notSweep>>

\* The caller takes the result (or the error); the service is free again.
SweepFinish ==
    /\ sweep.pc \in {"done", "raised"}
    /\ sweep.run + 1 \in Runs
    /\ lastRun' = [kind |-> sweep.kind, param |-> sweep.param, now |-> now,
                   result |-> sweep.result]
    /\ sweep' = [IdleSweep EXCEPT !.run = sweep.run + 1]
    /\ UNCHANGED <<table, now, table0, notSweep>>

NextSweep ==
    \/ StartAgeSweep
    \/ StartReadSweep
    \/ SweepQuery
    \/ SweepItemReasons
    \/ SweepBatchWrite
    \/ SweepItemAppend
    \/ SweepFlushed
    \/ SweepFinal
    \/ SweepFinalFlushed
    \/ SweepReturn
    \/ SweepFinish

(***************************************************************************)
(* FeedService.delete_feed.  _delete_feed_related_data runs the loop of    *)
(* the sweeps over the feed-scoped index, without a page-size limit and    *)
(* without the exit on an empty page.                                      *)
(***************************************************************************)
FeedPK(feed_id) == <<"FEED", feed_id>>

\* Feed.to_dynamodb_item
FeedItem(feed_id) ==
    [PK |-> FeedPK(feed_id), SK |-> MetadataSK, EntityType |-> "Feed",
     feed_id |-> feed_id, is_active |-> TRUE,
     GSI1PK |-> "FEED", GSI1SK |-> FeedPK(feed_id)]

\* Mutant: the Feed record is deleted before its articles.
delete_feed_record_first(feed_id) ==
    /\ sweep.pc = "idle"
    /\ IF get_item(table, FeedPK(feed_id), MetadataSK) = None
       THEN sweep' = [sweep EXCEPT !.pc = "done", !.kind = "feed",
                                   !.param = feed_id, !.result = Some(FALSE)]
       ELSE sweep' = [sweep EXCEPT
                !.pc = "query", !.kind = "feed", !.param = feed_id,
                !.index_name = "GSI5", !.pk_value = FeedPK(feed_id),
                !.cond = [op |-> "any"], !.limit = None]
    /\ table0' = table
    /\ table' = DeleteItem(table, [PK |-> FeedPK(feed_id), SK |-> MetadataSK])
    /\ UNCHANGED <<now, lastRun, notSweep>>

\* FeedService.delete_feed, up to the first query of the cascade.
delete_feed(feed_id) ==
    /\ sweep.pc = "idle"
    /\ IF get_item(table, FeedPK(feed_id), MetadataSK) = None
       THEN sweep' = [sweep EXCEPT !.pc = "done", !.kind = "feed",
                                   !.param = feed_id, !.result = Some(FALSE)]
       ELSE sweep' = [sweep EXCEPT
                !.pc = "query", !.kind = "feed", !.param = feed_id,
                !.index_name = "GSI5", !.pk_value = FeedPK(feed_id),
                !.cond = [op |-> "any"], !.limit = None]
    /\ table0' = table
    /\ UNCHANGED <<table, now, lastRun, notSweep>>

StartFeedCascade == \E feed_id \in FeedIds : delete_feed(feed_id)

\* _delete_feed_related_data has returned: delete the Feed record and
\* return True.
FeedDeleteRecord ==
    /\ sweep.pc = "return"
    /\ sweep.kind = "feed"
    /\ table' = DeleteItem(table, [PK |-> FeedPK(sweep.param), SK |-> MetadataSK])
    /\ sweep' = [sweep EXCEPT !.pc = "done", !.result = Some(TRUE)]
    /\ UNCHANGED <<now, table0, lastRun, notSweep>>

NextFeed ==
    \/ StartFeedCascade
    \/ SweepQuery
    \/ SweepItemReasons
    \/ SweepBatchWrite
    \/ SweepItemAppend
    \/ SweepFlushed
    \/ SweepFinal
    \/ SweepFinalFlushed
    \/ FeedDeleteRecord
    \/ SweepFinish

(***************************************************************************)
(* ImportanceScoreService.recalculate_score.  Scores, similarities and     *)
(* contributions are in units of 1/ScoreOne; a keyword text is its number. *)
(***************************************************************************)
KeywordPK(keyword_id) == <<"KEYWORD", keyword_id>>

\* Keyword.to_dynamodb_item
KeywordItem(keyword_id, text, weight, is_active) ==
    [PK |-> KeywordPK(keyword_id), SK |-> MetadataSK, EntityType |-> "Keyword",
     keyword_id |-> keyword_id, text |-> text, weight |-> weight,
     is_active |-> is_active, GSI1PK |-> "KEYWORD", GSI1SK |-> KeywordPK(keyword_id)]

\* DynamoDBClient.query_keywords as recalculate_score uses it: one
\* response, the cursor is dropped.
query_keywords(t) ==
    LET resp == CHOOSE r \in query(t, "GSI1", "KEYWORD", [op |-> "any"],
                                   None, None, NumKeywords) : TRUE
    IN  resp.items

\* ImportanceScoreService._extract_keyword_data
extract_keyword_data(item) ==
    IF item.keyword_id = 0 \/ item.text = 0 THEN None
    ELSE Some([keyword_id |-> item.keyword_id, text |-> item.text,
               weight |-> item.weight, is_active |-> item.is_active])

\* ImportanceScoreService._convert_item_to_article: every stored timestamp
\* goes through parse_datetime_string; None stands for its ValueError.
convert_item_to_article(item) ==
    LET published_at == parse_datetime_string(item.published_at)
        created_at == parse_datetime_string(item.created_at)
        read_at == IF item.read_at = None THEN Some(None)
                   ELSE LET parsed == parse_datetime_string(item.read_at[1])
                        IN  IF parsed = None THEN None ELSE Some(parsed)
    IN  IF published_at = None \/ created_at = None \/ read_at = None THEN None
        ELSE Some([Article(item.article_id, item.feed_id, item.link, created_at[1],
                           item.is_read, read_at[1], item.is_saved,
                           item.importance_score)
                      EXCEPT !.published_at = published_at[1]])

\* calculate_similarity of the article text and a keyword text: cosine
\* similarity of two embeddings, a fixed function of the two texts.
calculate_similarity(article_id, text) == ((article_id + text) % 4) - 1

\* Mutant: inactive keywords are scored like the active ones.
RECURSIVE calculate_score_all_keywords(_, _)
calculate_score_all_keywords(article_id, keywords) ==
    IF keywords = <<>> THEN [total_score |-> 0, reasons |-> <<>>]
    ELSE LET keyword == keywords[Len(keywords)]
             before == calculate_score_all_keywords(article_id,
                           SubSeq(keywords, 1, Len(keywords) - 1))
             similarity == calculate_similarity(article_id, keyword.text)
             contribution == similarity * keyword.weight
         IN  [total_score |-> before.total_score + contribution,
              reasons |-> Append(before.reasons,
                                 ReasonItem(article_id, keyword.keyword_id,
                                            keyword.text, similarity, contribution))]

\* ImportanceScoreService.calculate_score: inactive keywords are skipped,
\* every other keyword adds similarity * weight and one reason.
RECURSIVE calculate_score(_, _)
calculate_score(article_id, keywords) ==
    IF keywords = <<>> THEN [total_score |-> 0, reasons |-> <<>>]
    ELSE LET keyword == keywords[Len(keywords)]
             before == calculate_score(article_id, SubSeq(keywords, 1, Len(keywords) - 1))
             similarity == calculate_similarity(article_id, keyword.text)
             contribution == similarity * keyword.weight
         IN  IF ~keyword.is_active THEN before
             ELSE [total_score |-> before.total_score + contribution,
                   reasons |-> Append(before.reasons,
                                      ReasonItem(article_id, keyword.keyword_id,
                                                 keyword.text, similarity, contribution))]

IdleRecalc ==
    [pc |-> "idle", article_id |-> 0, article_item |-> None, article |-> None,
     score |-> 0, reasons |-> <<>>, batch |-> <<>>, ret |-> "idle", run |-> 1]

\* recalculate_score: the point read of the article.
recalculate_score(article_id) ==
    /\ recalc.pc = "idle"
    /\ LET article_item == get_item(table, ArticlePK(article_id), MetadataSK)
       IN  recalc' = [recalc EXCEPT
               !.pc = IF article_item = None THEN "done" ELSE "calculate",
               !.article_id = article_id,
               !.article_item = article_item]
    /\ table0' = table
    /\ UNCHANGED <<table, notRecalc>>

StartRecalc == \E article_id \in ArticleIds : recalculate_score(article_id)

\* The keyword listing, the conversion of the item, calculate_score, the
\* clamp to [0, 1] and update_importance_score.
RecalcCalculate ==
    /\ recalc.pc = "calculate"
    /\ LET keywords == query_keywords(table)
           article == convert_item_to_article(recalc.article_item[1])
           extracted == [i \in 1..Len(keywords) |-> extract_keyword_data(keywords[i])]
           keyword_payloads == [i \in 1..Len(keywords) |-> extracted[i][1]]
           calculated == calculate_score(recalc.article_id, keyword_payloads)
           normalized_score == Max(0, Min(calculated.total_score, ScoreOne))
       IN  IF article = None
           THEN recalc' = [recalc EXCEPT !.pc = "raised"]
           ELSE recalc' = [recalc EXCEPT
                    !.pc = "put",
                    !.article = Some([article[1] EXCEPT
                                         !.importance_score = normalized_score]),
                    !.score = calculated.total_score,
                    !.reasons = calculated.reasons]
    /\ UNCHANGED <<table, table0, notRecalc>>

\* Mutant: the loaded item is written back with the new score and the
\* index keys it was loaded with.
RecalcPutStaleKeys ==
    /\ recalc.pc = "put"
    /\ table' = PutItem(table, [recalc.article_item[1] EXCEPT
                                   !.importance_score = recalc.article[1].importance_score])
    /\ recalc' = [recalc EXCEPT !.pc = "delete_reasons"]
    /\ UNCHANGED <<table0, notRecalc>>

\* put_item(article.to_dynamodb_item())
RecalcPutArticle ==
    /\ recalc.pc = "put"
    /\ table' = PutItem(table, ArticleItem(recalc.article[1]))
    /\ recalc' = [recalc EXCEPT !.pc = "delete_reasons"]
    /\ UNCHANGED <<table0, notRecalc>>

\* Mutant: the stored reasons are not deleted before the new ones are
\* written.
RecalcKeepReasons ==
    /\ recalc.pc = "delete_reasons"
    /\ recalc' = [recalc EXCEPT !.pc = "write_reasons"]
    /\ UNCHANGED <<table, table0, notRecalc>>

\* delete_importance_reasons_for_article(article_id)
RecalcDeleteReasons ==
    /\ recalc.pc = "delete_reasons"
    /\ LET keys == delete_importance_reasons_for_article(table, recalc.article_id)
       IN  IF keys # <<>>
           THEN recalc' = [recalc EXCEPT !.pc = "batch", !.ret = "write_reasons",
                                         !.batch = batch_write_item(<<>>, keys)]
           ELSE recalc' = [recalc EXCEPT !.pc = "write_reasons"]
    /\ UNCHANGED <<table, table0, notRecalc>>

\* DynamoDBClient.batch_write_item: the next request reaches the table.
RecalcBatchWrite ==
    /\ recalc.pc = "batch"
    /\ table' = ApplyRequest(table, Head(recalc.batch))
    /\ recalc' = [recalc EXCEPT !.batch = Tail(recalc.batch),
                                !.pc = IF Tail(recalc.batch) = <<>> THEN recalc.ret
                                       ELSE "batch"]
    /\ UNCHANGED <<table0, notRecalc>>

\* if reasons: batch_write_item(reasons)
RecalcWriteReasons ==
    /\ recalc.pc = "write_reasons"
    /\ IF recalc.reasons # <<>>
       THEN recalc' = [recalc EXCEPT !.pc = "batch", !.ret = "done",
                                     !.batch = batch_write_item(recalc.reasons, <<>>)]
       ELSE recalc' = [recalc EXCEPT !.pc = "done"]
    /\ UNCHANGED <<table, table0, notRecalc>>

\* The call has returned (or raised); the next one may start.
RecalcFinish ==
    /\ recalc.pc \in {"done", "raised"}
    /\ recalc.run + 1 \in Runs
    /\ recalc' = [IdleRecalc EXCEPT !.run = recalc.run + 1]
    /\ UNCHANGED <<table, table0, notRecalc>>

NextRecalc ==
    \/ StartRecalc
    \/ RecalcCalculate
    \/ RecalcPutArticle
    \/ RecalcDeleteReasons
    \/ RecalcBatchWrite
    \/ RecalcWriteReasons
    \/ RecalcFinish

(***************************************************************************)
(* FeedFetcherService.fetch_feed.  A link is the path it names, whether    *)
(* it spells out the default port and whether it ends in a slash.          *)
(***************************************************************************)
Links == [path : {1, 2}, port : BOOLEAN, slash : BOOLEAN]

\* str(HttpUrl(link)): the URL type drops the default port.
HttpUrl(link) == [link EXCEPT !.port = FALSE]

\* LinkIndex.generate_hash_from_url: lower, strip, drop one trailing
\* slash, SHA-256 (equal hashes for equal normalized strings only).
generate_hash_from_url(url) == <<"sha256", [url EXCEPT !.slash = FALSE]>>

LinkPK(url_hash) == <<"LINK", url_hash>>

\* LinkIndex.create_from_article(...).to_dynamodb_item(): the hash is
\* taken from the HttpUrl form of the link.
LinkIndexItem(link, article_id) ==
    [PK |-> LinkPK(generate_hash_from_url(HttpUrl(link))), SK |-> MetadataSK,
     EntityType |-> "LinkIndex", link |-> HttpUrl(link), article_id |-> article_id,
     url_hash |-> generate_hash_from_url(HttpUrl(link))]

\* FeedFetcherService._is_duplicate: the hash is taken from the raw link.
is_duplicate(t, link) ==
    get_item(t, LinkPK(generate_hash_from_url(link)), MetadataSK) # None

\* FeedFetcherService._build_article: None when the Article model rejects
\* the data (a title over 500 characters).
build_article(feed_id, entry, link, title, article_id) ==
    IF title = "long" THEN None
    ELSE Some(Article(article_id, feed_id, HttpUrl(link), now, FALSE, None, FALSE, 0))

IdleFetch ==
    [pc |-> "idle", feed_id |-> 0, entries |-> <<>>, total_entries |-> 0,
     created_articles |-> 0, skipped_duplicates |-> 0, skipped_invalid |-> 0,
     items_to_save |-> <<>>, batch |-> <<>>, result |-> None, next_id |-> 1,
     run |-> 1]

\* fetch_feed up to the loop: parsed_feed is None when parse_feed raises
\* FeedFetchError.
fetch_feed(feed_id, parsed_feed) ==
    /\ fetch.pc = "idle"
    /\ IF parsed_feed = None
       THEN fetch' = [fetch EXCEPT !.pc = "raised", !.feed_id = feed_id]
       ELSE fetch' = [fetch EXCEPT
                !.pc = IF parsed_feed[1] = <<>> THEN "save" ELSE "entry",
                !.feed_id = feed_id, !.entries = parsed_feed[1],
                !.total_entries = Len(parsed_feed[1])]
    /\ UNCHANGED <<table, notFetch>>

\* One pass of the loop over the entries.  The duplicate check reads the
\* table; what the run has collected so far is in items_to_save only.
FetchEntry ==
    /\ fetch.pc = "entry"
    /\ LET entry == Head(fetch.entries)
           link == entry.link
           title == IF entry.title = "" THEN None ELSE Some(entry.title)
           article == build_article(fetch.feed_id, entry, link[1], title[1], fetch.next_id)
           rest == [fetch EXCEPT !.entries = Tail(fetch.entries),
                                 !.pc = IF Tail(fetch.entries) = <<>> THEN "save"
                                        ELSE "entry"]
       IN  IF link = None \/ title = None
           THEN fetch' = [rest EXCEPT !.skipped_invalid = @ + 1]
           ELSE IF is_duplicate(table, link[1])
           THEN fetch' = [rest EXCEPT !.skipped_duplicates = @ + 1]
           ELSE IF article = None
           THEN fetch' = [rest EXCEPT !.skipped_invalid = @ + 1]
           ELSE fetch' = [rest EXCEPT
                    !.items_to_save = @ \o <<ArticleItem(article[1]),
                                             LinkIndexItem(article[1].link,
                                                           article[1].article_id)>>,
                    !.created_articles = @ + 1,
                    !.next_id = @ + 1]
    /\ UNCHANGED <<table, notFetch>>

\* if items_to_save: batch_write_item(items=items_to_save)
FetchSave ==
    /\ fetch.pc = "save"
    /\ IF fetch.items_to_save # <<>>
       THEN fetch' = [fetch EXCEPT !.pc = "batch",
                                   !.batch = batch_write_item(fetch.items_to_save, <<>>)]
       ELSE fetch' = [fetch EXCEPT !.pc = "feed_put"]
    /\ UNCHANGED <<table, notFetch>>

\* DynamoDBClient.batch_write_item: the next request reaches the table.
FetchBatchWrite ==
    /\ fetch.pc = "batch"
    /\ table' = ApplyRequest(table, Head(fetch.batch))
    /\ fetch' = [fetch EXCEPT !.batch = Tail(fetch.batch),
                              !.pc = IF Tail(fetch.batch) = <<>> THEN "feed_put"
                                     ELSE "batch"]
    /\ UNCHANGED notFetch

\* The store rejects a write batch that names one key twice; the fault is
\* not a throttling fault, so batch_write_item raises it.
FetchBatchRejected ==
    /\ fetch.pc = "batch"
    /\ \E i, j \in DOMAIN fetch.batch :
          i # j /\ KeyOf(fetch.batch[i].item) = KeyOf(fetch.batch[j].item)
    /\ fetch' = [fetch EXCEPT !.pc = "raised"]
    /\ UNCHANGED <<table, notFetch>>

\* _update_feed_metadata, put_item(feed.to_dynamodb_item()), return.
FetchPutFeed ==
    /\ fetch.pc = "feed_put"
    /\ table' = PutItem(table, FeedItem(fetch.feed_id))
    /\ fetch' = [fetch EXCEPT
           !.pc = "done",
           !.result = Some([total_entries |-> fetch.total_entries,
                            created_articles |-> fetch.created_articles,
                            skipped_duplicates |-> fetch.skipped_duplicates,
                            skipped_invalid |-> fetch.skipped_invalid])]
    /\ UNCHANGED notFetch

\* The call has returned (or raised); the next run may start.
FetchFinish ==
    /\ fetch.pc \in {"done", "raised"}
    /\ fetch.run + 1 \in Runs
    /\ fetch' = [IdleFetch EXCEPT !.run = fetch.run + 1, !.next_id = fetch.next_id]
    /\ UNCHANGED <<table, notFetch>>

\* The entries a fetched document can hold: no link, no title, a title
\* the Article model rejects, or a link with a proper title.
Entries ==
    {[link |-> None, title |-> "ok"],
     [link |-> Some([path |-> 1, port |-> FALSE, slash |-> FALSE]), title |-> ""],
     [link |-> Some([path |-> 1, port |-> FALSE, slash |-> FALSE]), title |-> "long"]}
      \cup {[link |-> Some(l), title |-> "ok"] : l \in Links}

Documents == UNION {[1..n -> Entries] : n \in 0..MaxEntries}

NextFetch ==
    \/ \E feed_id \in FeedIds, parsed_feed \in Optional(Documents) :
          fetch_feed(feed_id, parsed_feed)
    \/ FetchEntry
    \/ FetchSave
    \/ FetchBatchWrite
    \/ FetchBatchRejected
    \/ FetchPutFeed
    \/ FetchFinish

(***************************************************************************)
(* The keyword-embedding cache of ImportanceScoreService.  Entering a      *)
(* `with self._keyword_embedding_cache_lock` block is one step (it waits   *)
(* until the lock is free), the block with its release is the next; the    *)
(* embedding is computed between the two blocks.  An embedding object is   *)
(* the vector of its text and the call that made it.  The configured       *)
(* capacity is at least 1.                                                 *)
(***************************************************************************)
Threads == {1, 2}

KeywordTexts == 1..(KEYWORD_EMBEDDING_CACHE_SIZE + 1)

IdleThread == [pc |-> "idle", keyword_text |-> 0, embedding |-> None, result |-> None]

\* get_embedding(text): the embedding is a function of the text.
get_embedding(text) == <<"embedding", text>>

CacheKeys(c) == [i \in DOMAIN c |-> c[i].k]

Without(seq, k) == SelectSeq(seq, LAMBDA x : x # k)

\* Mutant: a hit leaves the order of the cache as it is.
keep_order(c, k) == c

\* OrderedDict.move_to_end(key)
move_to_end(c, k) ==
    SelectSeq(c, LAMBDA e : e.k # k) \o SelectSeq(c, LAMBDA e : e.k = k)

\* Mutant: the oldest entry is evicted only once the cache is over its
\* capacity.
evict_when_over_capacity(c) ==
    IF Len(c) > KEYWORD_EMBEDDING_CACHE_SIZE THEN Tail(c) ELSE c

\* ImportanceScoreService._evict_oldest_cache_entry
evict_oldest_cache_entry(c) ==
    IF Len(c) >= KEYWORD_EMBEDDING_CACHE_SIZE THEN Tail(c) ELSE c

\* OrderedDict.get(key): None when the key is absent.
CacheGet(c, k) ==
    LET hit == {i \in DOMAIN c : c[i].k = k}
    IN  IF hit = {} THEN None ELSE Some(c[CHOOSE i \in hit : TRUE].v)

\* get_keyword_embedding(keyword_text) is called: the thread arrives at
\* the first locked block.
get_keyword_embedding(t, keyword_text) ==
    /\ threads[t].pc = "idle"
    /\ threads' = [threads EXCEPT ![t] = [IdleThread EXCEPT
                                             !.pc = "lock_first",
                                             !.keyword_text = keyword_text]]
    /\ UNCHANGED <<cache, lock, lru, notCache>>

\* Lock.__enter__: the thread takes the free lock and enters the block it
\* was waiting at.
CacheAcquire(t) ==
    /\ threads[t].pc \in {"lock_first", "lock_second"}
    /\ lock = None
    /\ lock' = Some(t)
    /\ threads' = [threads EXCEPT ![t].pc = IF @ = "lock_first" THEN "first" ELSE "check"]
    /\ UNCHANGED <<cache, lru, notCache>>

\* A cache hit under the lock: move_to_end, return the cached value; the
\* return leaves the with block, which releases the lock.
CacheHit(t, k) ==
    /\ cache' = move_to_end(cache, k)
    /\ lru' = [lru EXCEPT !.recency = Append(Without(@, k), k)]
    /\ threads' = [threads EXCEPT ![t].pc = "idle", ![t].result = CacheGet(cache, k)]
    /\ lock' = None

\* Mutant: the lock is kept across the computation of a missed keyword.
CacheFirstCheckKeepsLock(t) ==
    /\ threads[t].pc = "first"
    /\ IF CacheGet(cache, threads[t].keyword_text) # None
       THEN CacheHit(t, threads[t].keyword_text)
       ELSE /\ threads' = [threads EXCEPT ![t].pc = "compute"]
            /\ UNCHANGED <<cache, lock, lru>>
    /\ UNCHANGED notCache

\* The first look-up under the lock; on a miss the block ends, the lock is
\* released and the computation follows.
CacheFirstCheck(t) ==
    /\ threads[t].pc = "first"
    /\ IF CacheGet(cache, threads[t].keyword_text) # None
       THEN CacheHit(t, threads[t].keyword_text)
       ELSE /\ threads' = [threads EXCEPT ![t].pc = "compute"]
            /\ lock' = None
            /\ UNCHANGED <<cache, lru>>
    /\ UNCHANGED notCache

\* get_embedding(keyword_text) outside the lock; it may raise, which ends
\* the call.
CacheCompute(t, ok) ==
    /\ threads[t].pc = "compute"
    /\ threads' = [threads EXCEPT ![t] =
           IF ok THEN [@ EXCEPT !.pc = "lock_second",
                                !.embedding = Some([vector |-> get_embedding(threads[t].keyword_text),
                                                    call |-> t])]
           ELSE IdleThread]
    /\ UNCHANGED <<cache, lock, lru, notCache>>

\* Mutant: no second look-up, the computed embedding is always inserted.
CacheSecondCheckAlwaysInserts(t) ==
    /\ threads[t].pc = "check"
    /\ cache' = Append(evict_oldest_cache_entry(cache),
                       [k |-> threads[t].keyword_text, v |-> threads[t].embedding[1]])
    /\ threads' = [threads EXCEPT ![t].pc = "idle", ![t].result = threads[t].embedding]
    /\ lock' = None
    /\ UNCHANGED <<lru, notCache>>

\* The second look-up under the lock: a hit when another thread has
\* inserted the keyword meanwhile; otherwise evict if full, insert the
\* computed embedding and return it.
CacheSecondCheck(t) ==
    /\ threads[t].pc = "check"
    /\ LET k == threads[t].keyword_text
           kept == evict_oldest_cache_entry(cache)
           gone == {x \in Range(CacheKeys(cache)) : x \notin Range(CacheKeys(kept))}
       IN  IF CacheGet(cache, k) # None
           THEN CacheHit(t, k)
           ELSE /\ cache' = Append(kept, [k |-> k, v |-> threads[t].embedding[1]])
                /\ lru' = [recency |-> Append(SelectSeq(lru.recency,
                                                 LAMBDA x : x \notin gone), k),
                           inserted |-> Append(SelectSeq(lru.inserted,
                                                  LAMBDA x : x \notin gone), k),
                           evicted |-> IF gone = {} THEN lru.evicted
                                       ELSE Some([keys |-> gone,
                                                  lru |-> Head(lru.recency),
                                                  oldest |-> Head(lru.inserted)])]
                /\ threads' = [threads EXCEPT ![t].pc = "idle",
                                              ![t].result = threads[t].embedding]
                /\ lock' = None
    /\ UNCHANGED notCache

\* ImportanceScoreService.clear_cache: the whole with block, entered when
\* the lock is free.
clear_cache ==
    /\ lock = None
    /\ cache' = <<>>
    /\ lru' = [recency |-> <<>>, inserted |-> <<>>, evicted |-> None]
    /\ UNCHANGED <<threads, lock, notCache>>

NextCache ==
    \/ \E t \in Threads, keyword_text \in KeywordTexts :
          get_keyword_embedding(t, keyword_text)
    \/ \E t \in Threads : CacheAcquire(t)
    \/ \E t \in Threads : CacheFirstCheck(t)
    \/ \E t \in Threads, ok \in BOOLEAN : CacheCompute(t, ok)
    \/ \E t \in Threads : CacheSecondCheck(t)
    \/ clear_cache

(***************************************************************************)
(* One DynamoDBClient call and the faults of the store.  A request of the  *)
(* call reaches the table in one step; the store may refuse the next       *)
(* request with a ClientError instead.  Delays are in units of 0.1 s.      *)
(***************************************************************************)
max_retries == 3

base_delay == 1

\* random.uniform(0, 0.1)
Jitters == {0, 1}

ErrorCodes ==
    {"ProvisionedThroughputExceededException", "ThrottlingException",
     "ValidationException"}

ClientOps == {"put_item", "get_item", "query", "delete_item", "batch_write_item"}

IdleClient ==
    [pc |-> "idle", op |-> "none", requests |-> <<>>, pending |-> <<>>,
     attempt |-> 0, calls |-> 0, faults |-> <<>>, delays |-> <<>>,
     error |-> None, result |-> None]

\* Mutant: a throttled batch is given up at once.
batch_write_except_no_retry(op, error_code, attempt) == "raise"

\* Mutant: every ClientError of a batch write is retried.
batch_write_except_any_code(op, error_code, attempt) ==
    IF op = "batch_write_item" /\ attempt < max_retries THEN "retry" ELSE "raise"

\* The except ClientError clause of the call: batch_write_item retries a
\* throttling code while attempt < max_retries; everything else is logged
\* and raised again.
batch_write_except(op, error_code, attempt) ==
    IF /\ op = "batch_write_item"
       /\ error_code \in {"ProvisionedThroughputExceededException", "ThrottlingException"}
       /\ attempt < max_retries
    THEN "retry"
    ELSE "raise"

\* The requests a call sends to the table.
ClientRequests(op, items, delete_keys) ==
    CASE op = "put_item" -> <<[op |-> "put", item |-> items[1]]>>
      [] op = "delete_item" -> <<[op |-> "delete", key |-> delete_keys[1]]>>
      [] op = "get_item" -> <<[op |-> "get", key |-> delete_keys[1]]>>
      [] op = "query" -> <<[op |-> "query"]>>
      [] op = "batch_write_item" -> batch_write_item(items, delete_keys)

\* A method of the client is called; the first attempt begins.
ClientCall(op, items, delete_keys) ==
    /\ client.pc = "idle"
    /\ client' = [client EXCEPT
           !.pc = "attempt", !.op = op,
           !.requests = ClientRequests(op, items, delete_keys),
           !.pending = ClientRequests(op, items, delete_keys),
           !.calls = 1]
    /\ table0' = table
    /\ UNCHANGED <<table, notClient>>

\* The store serves the next request of the attempt.
ClientApply ==
    /\ client.pc = "attempt"
    /\ client.pending # <<>>
    /\ LET req == Head(client.pending)
       IN  /\ table' = IF req.op \in {"put", "delete"} THEN ApplyRequest(table, req)
                       ELSE table
           /\ \E resp \in query(table, "GSI3", "ARTICLE", [op |-> "any"],
                                None, None, StorePage) :
                 client' = [client EXCEPT
                     !.pending = Tail(@),
                     !.result = CASE req.op = "get" ->
                                         Some(get_item(table, req.key.PK, req.key.SK))
                                  [] req.op = "query" -> Some(resp)
                                  [] OTHER -> @]
    /\ UNCHANGED <<table0, notClient>>

\* Every request was served: the call returns.
ClientReturn ==
    /\ client.pc = "attempt"
    /\ client.pending = <<>>
    /\ client' = [client EXCEPT !.pc = "returned"]
    /\ UNCHANGED <<table, table0, notClient>>

\* The store refuses the next request with ClientError(error_code); the
\* except clause either sleeps for the backoff delay or raises.
ClientFault(error_code, jitter) ==
    /\ client.pc = "attempt"
    /\ client.pending # <<>>
    /\ IF batch_write_except(client.op, error_code, client.attempt) = "retry"
       THEN client' = [client EXCEPT
                !.pc = "sleep",
                !.faults = Append(@, error_code),
                !.delays = Append(@, base_delay * (2 ^ client.attempt) + jitter)]
       ELSE client' = [client EXCEPT
                !.pc = "raised",
                !.faults = Append(@, error_code),
                !.error = Some(error_code)]
    /\ UNCHANGED <<table, table0, notClient>>

\* time.sleep(delay) is over; continue: the next attempt sends the whole
\* batch again.
ClientWake ==
    /\ client.pc = "sleep"
    /\ client' = [client EXCEPT !.pc = "attempt", !.attempt = @ + 1,
                                !.calls = @ + 1, !.pending = client.requests]
    /\ UNCHANGED <<table, table0, notClient>>

\* A stored article as the calls of this section write and delete it.
ClientItem(article_id, score) ==
    ArticleItem(Article(article_id, 1, article_id, Datetime(1, 1, FALSE),
                        FALSE, None, FALSE, score))

\* What the store and the sleeping client do by themselves.
ClientStep ==
    \/ ClientApply
    \/ ClientReturn
    \/ \E error_code \in ErrorCodes, jitter \in Jitters : ClientFault(error_code, jitter)
    \/ ClientWake

\* One call, with puts of articles 1..n (stored or not) and deletes of
\* the articles after them, at most BATCH_SIZE requests in all, and what
\* follows it.
NextClient ==
    \/ \E op \in ClientOps, n \in 0..BATCH_SIZE, k \in 0..BATCH_SIZE :
          /\ n + k <= BATCH_SIZE
          /\ op # "batch_write_item" => n = 1 /\ k = 1
          /\ ClientCall(op,
                        [i \in 1..n |-> ClientItem(i, ScoreOne)],
                        [i \in 1..k |-> KeyOf(ClientItem(n + i, 0))])
    \/ ClientStep

(***************************************************************************)
(* Faults during a sweep or a cascade.  Neither _delete_articles_by_query  *)
(* nor delete_feed / _delete_feed_related_data has an except clause, so a  *)
(* ClientError of a storage call leaves them at once.                      *)
(***************************************************************************)
\* Mutant: the fault is logged and the loop is left as if it had ended.
SweepFaultSuppressed(error_code) ==
    /\ \/ sweep.pc \in {"query", "item", "batch"}
       \/ sweep.kind = "feed" /\ sweep.pc = "return"
    /\ sweep' = [sweep EXCEPT !.pc = IF sweep.pc = "return" THEN "raised" ELSE "final",
                              !.error = Some(error_code)]
    /\ UNCHANGED <<table, now, table0, lastRun, notSweep>>

\* The storage call the operation is at raises ClientError(error_code):
\* the page query, the reasons query, batch_write_item (once it gives up,
\* with any part of the batch applied) or the delete_item of the Feed
\* record.  The exception propagates to the caller.
SweepFault(error_code) ==
    /\ \/ sweep.pc \in {"query", "item", "batch"}
       \/ sweep.kind = "feed" /\ sweep.pc = "return"
    /\ sweep' = [sweep EXCEPT !.pc = "raised", !.error = Some(error_code)]
    /\ UNCHANGED <<table, now, table0, lastRun, notSweep>>

NextFault ==
    \/ NextSweep
    \/ NextFeed
    \/ \E error_code \in ErrorCodes : SweepFault(error_code)

(***************************************************************************)
(* Reverse sort keys of two scores, side by side.  The scores are counted  *)
(* in units finer than 1 / SCORE_PRECISION, so that different scores can   *)
(* scale to the same integer.                                              *)
(***************************************************************************)
FineUnit == 4 * SCORE_PRECISION

\* Scores around 0, around the middle and around 1.0, below 0 and above
\* 1.0.
FineScores ==
    {0 - FineUnit, -1} \cup 0..5 \cup {(FineUnit \div 2) + d : d \in -4..4}
      \cup {FineUnit - d : d \in 0..5} \cup {FineUnit + 1, 2 * FineUnit}

KeyGenerators == {"BaseModel", "DynamoDBClient"}

NoKeyCall ==
    [generator |-> "none", max_score |-> 0, score1 |-> 0, score2 |-> 0,
     key1 |-> None, key2 |-> None]

\* Both scores go through one of the two generators.
GenerateKeys(generator, max_score, score1, score2) ==
    /\ key_call = NoKeyCall
    /\ key_call' =
          [generator |-> generator, max_score |-> max_score,
           score1 |-> score1, score2 |-> score2,
           key1 |-> IF generator = "BaseModel"
                    THEN generate_reverse_sort_key(score1, max_score, FineUnit)
                    ELSE client_generate_reverse_sort_key(score1, max_score, FineUnit),
           key2 |-> IF generator = "BaseModel"
                    THEN generate_reverse_sort_key(score2, max_score, FineUnit)
                    ELSE client_generate_reverse_sort_key(score2, max_score, FineUnit)]
    /\ UNCHANGED <<table, now, sweep, table0, lastRun, recalc, fetch, cache, threads,
                   lock, client, svc, lru, parked>>

NextKey ==
    \E generator \in KeyGenerators, max_score \in {FineUnit, FineUnit \div 2},
       score1 \in FineScores, score2 \in FineScores :
        GenerateKeys(generator, max_score, score1, score2)

(***************************************************************************)
(* ArticleService.mark_as_read / mark_as_saved.  The point read, the       *)
(* conversion of the item and the change of the Article object are one     *)
(* step, the put_item of the whole item is the next.  In the sequences     *)
(* of NextArticle one operation runs at a time.                            *)
(***************************************************************************)
\* The variables an ArticleService call never touches.
notService ==
    <<now, sweep, table0, lastRun, recalc, fetch, cache, threads, lock, client, key_call,
      lru, parked>>

\* The arguments of a get_articles call, what the calls of one cursor
\* chain have returned so far, and the queries they have sent.
NoListing ==
    [sort_by |-> "none", filter_by |-> None, limit |-> 0, last_key |-> None,
     listed |-> <<>>, queries |-> 0]

IdleService ==
    [pc |-> "idle", op |-> "none", article_id |-> 0, flag |-> FALSE,
     article |-> None, result |-> None, listing |-> NoListing]

\* Article.mark_as_read: read_at is datetime.now(), for an unread article.
Article_mark_as_read(article) ==
    IF ~article.is_read
    THEN [article EXCEPT !.is_read = TRUE, !.read_at = Some(now)]
    ELSE article

\* Article.mark_as_unread
Article_mark_as_unread(article) ==
    IF article.is_read
    THEN [article EXCEPT !.is_read = FALSE, !.read_at = None]
    ELSE article

\* Article.toggle_saved
toggle_saved(article) == [article EXCEPT !.is_saved = ~article.is_saved]

\* ArticleService.get_article: None when the item is absent, Some(None)
\* when _convert_item_to_article raises ValueError.
get_article(t, article_id) ==
    LET item == get_item(t, ArticlePK(article_id), MetadataSK)
    IN  IF item = None THEN None ELSE Some(convert_item_to_article(item[1]))

\* A call up to its put_item: changed is the Article object after the
\* change.
ServiceCall(op, article_id, flag, article, changed) ==
    /\ svc.pc = "idle"
    /\ svc' = [pc |-> IF article = None THEN "returned"
                      ELSE IF article[1] = None THEN "raised" ELSE "put",
               op |-> op, article_id |-> article_id, flag |-> flag,
               article |-> IF article = None \/ article[1] = None THEN None
                           ELSE Some(changed),
               result |-> None, listing |-> NoListing]
    /\ UNCHANGED <<table, notService>>

\* ArticleService.mark_as_read(article_id, is_read)
mark_as_read(article_id, is_read) ==
    LET article == get_article(table, article_id)
    IN  ServiceCall("mark_as_read", article_id, is_read, article,
                    IF is_read THEN Article_mark_as_read(article[1][1])
                    ELSE Article_mark_as_unread(article[1][1]))

\* ArticleService.mark_as_saved(article_id, is_saved)
mark_as_saved(article_id, is_saved) ==
    LET article == get_article(table, article_id)
    IN  ServiceCall("mark_as_saved", article_id, is_saved, article,
                    IF article[1][1].is_saved # is_saved THEN toggle_saved(article[1][1])
                    ELSE article[1][1])

\* put_item(article.to_dynamodb_item()); return article
ServicePut ==
    /\ svc.pc = "put"
    /\ table' = PutItem(table, ArticleItem(svc.article[1]))
    /\ svc' = [svc EXCEPT !.pc = "returned", !.result = svc.article]
    /\ UNCHANGED notService

\* The call has returned (or raised); the next one may start.
ServiceFinish ==
    /\ svc.pc \in {"returned", "raised"}
    /\ svc' = IdleService
    /\ UNCHANGED <<table, notService>>

(***************************************************************************)
(* FeedService.update_feed, KeywordService.update_keyword and              *)
(* KeywordService.delete_keyword.  The payload of an update is its         *)
(* is_active field; None is the payload with every field None, and the     *)
(* call keeps in flag whether it had a payload.                            *)
(***************************************************************************)
Payloads == Optional(BOOLEAN)

\* FeedService.get_feed / KeywordService.get_keyword: the stored item, or
\* None when get_item finds nothing.
get_feed(t, feed_id) == get_item(t, FeedPK(feed_id), MetadataSK)

get_keyword(t, keyword_id) == get_item(t, KeywordPK(keyword_id), MetadataSK)

\* An update up to its put_item: the payload is checked first, then the
\* entity is looked up.
UpdateCall(op, id, payload, existing) ==
    /\ svc.pc = "idle"
    /\ svc' = [pc |-> IF payload = None THEN "raised"
                      ELSE IF existing = None THEN "returned" ELSE "put_item",
               op |-> op, article_id |-> id, flag |-> payload # None,
               article |-> IF payload = None \/ existing = None THEN None
                           ELSE Some([existing[1] EXCEPT !.is_active = payload[1]]),
               result |-> None, listing |-> NoListing]
    /\ UNCHANGED <<table, notService>>

\* Mutant: an update of an absent entity creates it.
update_feed_upsert(feed_id, payload) ==
    UpdateCall("update_feed", feed_id, payload, Some(FeedItem(feed_id)))

\* FeedService.update_feed(feed_id, title, folder, is_active)
update_feed(feed_id, payload) ==
    UpdateCall("update_feed", feed_id, payload, get_feed(table, feed_id))

\* KeywordService.update_keyword(keyword_id, text, weight, is_active)
update_keyword(keyword_id, payload) ==
    UpdateCall("update_keyword", keyword_id, payload, get_keyword(table, keyword_id))

\* put_item(existing.to_dynamodb_item()); return existing
UpdatePut ==
    /\ svc.pc = "put_item"
    /\ table' = PutItem(table, svc.article[1])
    /\ svc' = [svc EXCEPT !.pc = "returned", !.result = svc.article]
    /\ UNCHANGED notService

\* KeywordService.delete_keyword(keyword_id), up to its delete_item.
delete_keyword(keyword_id) ==
    /\ svc.pc = "idle"
    /\ svc' = [pc |-> IF get_keyword(table, keyword_id) = None THEN "returned"
                      ELSE "delete_item",
               op |-> "delete_keyword", article_id |-> keyword_id, flag |-> FALSE,
               article |-> None, result |-> Some(FALSE), listing |-> NoListing]
    /\ UNCHANGED <<table, notService>>

\* delete_item(KEYWORD#<id>, METADATA); return True
KeywordDelete ==
    /\ svc.pc = "delete_item"
    /\ table' = DeleteItem(table, [PK |-> KeywordPK(svc.article_id), SK |-> MetadataSK])
    /\ svc' = [svc EXCEPT !.pc = "returned", !.result = Some(TRUE)]
    /\ UNCHANGED notService

\* No call of the operation is under way.
Resting(call) == call.pc \in {"idle", "done", "raised"}

\* The updates and deletes of the three services, one call at a time.
NextEntity ==
    \/ /\ sweep.pc = "idle"
       /\ \/ \E feed_id \in FeedIds, payload \in Payloads : update_feed(feed_id, payload)
          \/ \E keyword_id \in KeywordIds, payload \in Payloads :
                update_keyword(keyword_id, payload)
          \/ \E keyword_id \in KeywordIds : delete_keyword(keyword_id)
          \/ \E is_read \in BOOLEAN : mark_as_read(1, is_read)
          \/ \E is_saved \in BOOLEAN : mark_as_saved(1, is_saved)
          \/ UpdatePut
          \/ KeywordDelete
          \/ ServicePut
          \/ ServiceFinish
    \/ /\ svc.pc = "idle"
       /\ NextFeed

(***************************************************************************)
(* ArticleService.get_articles over query_articles_with_filters.  The      *)
(* store applies Limit to the items it reads in index order and the        *)
(* filter to what it has read; the cursor is the position of the last      *)
(* item read.                                                              *)
(***************************************************************************)
ListingSkAttr(sort_by) == IF sort_by = "importance_score" THEN "GSI2SK" ELSE "GSI1SK"

\* Index position, ascending: sort key as a string, then primary key.
ListingLess(sk, a, b) ==
    IF a[sk] # b[sk] THEN StrLess(a[sk], b[sk]) ELSE KeyLess(KeyOf(a), KeyOf(b))

\* The scan order of the query: ScanIndexForward for importance_score,
\* backward for published_at.
ScanLess(sort_by, a, b) ==
    IF sort_by = "importance_score" THEN ListingLess("GSI2SK", a, b)
    ELSE ListingLess("GSI1SK", b, a)

RECURSIVE SortListing(_, _)
SortListing(sort_by, S) ==
    IF S = {} THEN <<>>
    ELSE LET m == CHOOSE x \in S : \A y \in S \ {x} : ScanLess(sort_by, x, y)
         IN  <<m>> \o SortListing(sort_by, S \ {m})

\* Attr('is_read').eq(False) / eq(True), Attr('is_saved').eq(True)
FilterExpression(filter_by, item) ==
    IF filter_by = None THEN TRUE
    ELSE CASE filter_by[1] = "unread" -> ~item.is_read
           [] filter_by[1] = "read" -> item.is_read
           [] filter_by[1] = "saved" -> item.is_saved
           [] OTHER -> TRUE

\* DynamoDBClient.query_articles_with_filters: the responses the store can
\* give (it reads at most page_cap items for one response).
query_articles_with_filters(t, sort_by, filter_by, limit, exclusive_start_key, page_cap) ==
    LET sk == ListingSkAttr(sort_by)
        pk == IF sort_by = "importance_score" THEN "GSI2PK" ELSE "GSI1PK"
        matching == {i \in t : /\ pk \in DOMAIN i
                               /\ i[pk] = "ARTICLE"
                               /\ \/ exclusive_start_key = None
                                  \/ ScanLess(sort_by, exclusive_start_key[1], i)}
        rest == SortListing(sort_by, matching)
        size == Min(limit, page_cap)
        read == SubSeq(rest, 1, Min(size, Len(rest)))
        items == SelectSeq(read, LAMBDA i : FilterExpression(filter_by, i))
        cursor == Some(read[Len(read)])
    IN  IF Len(rest) > size THEN {[items |-> items, last_evaluated_key |-> cursor]}
        ELSE IF Len(rest) = size
        THEN {[items |-> items, last_evaluated_key |-> cursor],
              [items |-> items, last_evaluated_key |-> None]}
        ELSE {[items |-> items, last_evaluated_key |-> None]}

SortBys == {"published_at", "importance_score", "title"}

FilterBys == Optional({"unread", "read", "saved", "starred"})

Limits == {0, 1, 2}

\* ArticleService.get_articles: the checks of its arguments.
valid_get_articles(sort_by, filter_by, limit) ==
    /\ sort_by \in {"published_at", "importance_score"}
    /\ filter_by \in Optional({"unread", "read", "saved"})
    /\ limit > 0

\* Mutant: the arguments are not checked.
get_articles_unchecked(sort_by, filter_by, limit) ==
    /\ svc.pc = "idle"
    /\ svc' = [IdleService EXCEPT
           !.op = "get_articles",
           !.pc = "query",
           !.listing = [NoListing EXCEPT !.sort_by = sort_by, !.filter_by = filter_by,
                                         !.limit = limit]]
    /\ UNCHANGED <<table, notService>>

\* ArticleService.get_articles(sort_by, filter_by, limit), first page: up
\* to the query.
get_articles(sort_by, filter_by, limit) ==
    /\ svc.pc = "idle"
    /\ svc' = [IdleService EXCEPT
           !.op = "get_articles",
           !.pc = IF valid_get_articles(sort_by, filter_by, limit) THEN "query"
                  ELSE "raised",
           !.listing = [NoListing EXCEPT !.sort_by = sort_by, !.filter_by = filter_by,
                                         !.limit = limit]]
    /\ UNCHANGED <<table, notService>>

\* The caller passes the cursor it got back, with the same arguments.
GetArticlesNextPage ==
    /\ svc.op = "get_articles"
    /\ svc.pc = "returned"
    /\ svc.listing.last_key # None
    /\ svc' = [svc EXCEPT !.pc = "query", !.result = None]
    /\ UNCHANGED <<table, notService>>

\* query_articles_with_filters and the conversion of the items; a
\* ValueError of _convert_item_to_article leaves the call.
GetArticlesQuery ==
    /\ svc.op = "get_articles"
    /\ svc.pc = "query"
    /\ \E resp \in query_articles_with_filters(table, svc.listing.sort_by,
                       svc.listing.filter_by, svc.listing.limit,
                       svc.listing.last_key, StorePage) :
          LET articles == [i \in DOMAIN resp.items |->
                              convert_item_to_article(resp.items[i])]
          IN  IF \E i \in DOMAIN articles : articles[i] = None
              THEN svc' = [svc EXCEPT !.pc = "raised",
                                      !.listing.queries = @ + 1]
              ELSE svc' = [svc EXCEPT
                       !.pc = "returned",
                       !.result = Some([i \in DOMAIN articles |-> articles[i][1]]),
                       !.listing.listed = @ \o [i \in DOMAIN articles |-> articles[i][1]],
                       !.listing.last_key = resp.last_evaluated_key,
                       !.listing.queries = @ + 1]
    /\ UNCHANGED <<table, notService>>

NextList ==
    \/ \E sort_by \in SortBys, filter_by \in FilterBys, limit \in Limits :
          get_articles(sort_by, filter_by, limit)
    \/ GetArticlesNextPage
    \/ GetArticlesQuery
    \/ ServiceFinish

\* The documents ingested between the calls: one or two entries with
\* proper titles and different links.
ArticleDocuments ==
    {[i \in 1..n |-> [link |-> Some([path |-> i, port |-> FALSE, slash |-> FALSE]),
                      title |-> "ok"]] : n \in 1..MaxEntries}

\* fetch_feed runs of feed 1 over these documents.
NextIngest ==
    \/ \E parsed_feed \in ArticleDocuments : fetch_feed(1, Some(parsed_feed))
    \/ FetchEntry
    \/ FetchSave
    \/ FetchBatchWrite
    \/ FetchPutFeed
    \/ FetchFinish

NextArticle ==
    \/ /\ Resting(recalc)
       /\ Resting(fetch)
       /\ \E article_id \in ArticleIds, is_read \in BOOLEAN :
             mark_as_read(article_id, is_read)
    \/ /\ Resting(recalc)
       /\ Resting(fetch)
       /\ \E article_id \in ArticleIds, is_saved \in BOOLEAN :
             mark_as_saved(article_id, is_saved)
    \/ ServicePut
    \/ ServiceFinish
    \/ /\ svc.pc = "idle"
       /\ Resting(fetch)
       /\ NextRecalc
    \/ /\ svc.pc = "idle"
       /\ Resting(recalc)
       /\ NextIngest

(***************************************************************************)
(* Stored articles the sweep specifications start from.                    *)
(***************************************************************************)
\* A reason record as a score calculation left it.
StoredReason(article_id, keyword_id) == ReasonItem(article_id, keyword_id, keyword_id, 1, 1)

\* The table holding, for each id, the article articles[id] (None: no such
\* article) and one reason per keyword of reasons[id].
TableOf(articles, reasons) ==
    LET present == {a \in DOMAIN articles : articles[a] # None}
    IN  {ArticleItem(articles[a][1]) : a \in present}
          \cup UNION {{StoredReason(a, k) : k \in reasons[a]} : a \in present}

ReasonChoices == {{}, KeywordIds}

\* Unread articles created at any tick, on the second or off it.
AgeProfiles(a) ==
    {Article(a, 1, a, Datetime(s, us, FALSE), FALSE, None, FALSE, 0) :
        s \in Secs, us \in Micros}

\* Articles created at tick 1 and read (or not) at any later point.
ReadProfiles(a) ==
    {Article(a, 1, a, Datetime(1, 1, FALSE), FALSE, None, FALSE, 0)}
      \cup {Article(a, 1, a, Datetime(1, 1, FALSE), TRUE,
                    Some(Datetime(s, us, FALSE)), FALSE, 0) :
               s \in Secs, us \in Micros}

\* Old articles (unread, read long ago, read just now) and a new one.
SweepProfiles(a) ==
    {Article(a, 1, a, Datetime(1, 1, FALSE), FALSE, None, FALSE, 0),
     Article(a, 1, a, Datetime(1, 1, FALSE), TRUE, Some(Datetime(1, 1, FALSE)), FALSE, 0),
     Article(a, 1, a, Datetime(1, 1, FALSE), TRUE, Some(Datetime(3, 1, FALSE)), FALSE, 0),
     Article(a, 1, a, Datetime(3, 1, FALSE), FALSE, None, FALSE, 0)}

InitSweepVars ==
    /\ sweep = IdleSweep
    /\ table0 = {}
    /\ lastRun = NoRun

\* No recalculation and no fetch is running; the cache is empty.
InitServiceVars ==
    /\ recalc = IdleRecalc
    /\ fetch = IdleFetch
    /\ cache = <<>>
    /\ threads = [t \in Threads |-> IdleThread]
    /\ lock = None
    /\ client = IdleClient
    /\ key_call = NoKeyCall
    /\ svc = IdleService
    /\ lru = [recency |-> <<>>, inserted |-> <<>>, evicted |-> None]
    /\ parked = [recalc |-> IdleRecalc, svc |-> IdleService]

InitSweep ==
    /\ now = Datetime(3, 1, FALSE)
    /\ \E articles \in [ArticleIds -> UNION {Optional(SweepProfiles(a)) : a \in ArticleIds}],
          reasons \in [ArticleIds -> ReasonChoices] :
          /\ \A a \in ArticleIds : articles[a] # None => articles[a][1].article_id = a
          /\ \A a \in ArticleIds : articles[a] = None => reasons[a] = {}
          /\ table = TableOf(articles, reasons)
    /\ InitSweepVars
    /\ InitServiceVars

SpecSweep == InitSweep /\ [][NextSweep]_vars

\* Same operations, from tables whose creation times fall on either side
\* of the cutoff and on its very second.
InitAge ==
    /\ \E us \in Micros : now = Datetime(3, us, FALSE)
    /\ \E articles \in [ArticleIds -> UNION {Optional(AgeProfiles(a)) : a \in ArticleIds}] :
          /\ \A a \in ArticleIds : articles[a] # None => articles[a][1].article_id = a
          /\ table = TableOf(articles, [a \in ArticleIds |-> {}])
    /\ InitSweepVars
    /\ InitServiceVars

SpecAge == InitAge /\ [][NextSweep]_vars

\* Same operations, from tables whose read times fall on either side of
\* the cutoff and on its very second.
InitRead ==
    /\ \E us \in Micros : now = Datetime(3, us, FALSE)
    /\ \E articles \in [ArticleIds -> UNION {Optional(ReadProfiles(a)) : a \in ArticleIds}] :
          /\ \A a \in ArticleIds : articles[a] # None => articles[a][1].article_id = a
          /\ table = TableOf(articles, [a \in ArticleIds |-> {}])
    /\ InitSweepVars
    /\ InitServiceVars

SpecRead == InitRead /\ [][NextSweep]_vars

\* Articles of either feed, each with no, one or every reason.
FeedProfiles(a) ==
    {Article(a, f, a, Datetime(1, 1, FALSE), FALSE, None, FALSE, 0) : f \in FeedIds}

FeedReasonChoices == {{}, {1}, KeywordIds}

InitFeed ==
    /\ now = Datetime(3, 1, FALSE)
    /\ \E feeds \in SUBSET FeedIds,
          articles \in [ArticleIds -> UNION {Optional(FeedProfiles(a)) : a \in ArticleIds}],
          reasons \in [ArticleIds -> FeedReasonChoices] :
          /\ \A a \in ArticleIds : articles[a] # None => articles[a][1].article_id = a
          /\ \A a \in ArticleIds : articles[a] = None => reasons[a] = {}
          /\ table = TableOf(articles, reasons) \cup {FeedItem(f) : f \in feeds}
    /\ InitSweepVars
    /\ InitServiceVars

SpecFeed == InitFeed /\ [][NextFeed]_vars

\* One sweep or one cascade, run to its end.
NextCleanup ==
    \/ StartAgeSweep
    \/ StartReadSweep
    \/ StartFeedCascade
    \/ SweepQuery
    \/ SweepItemReasons
    \/ SweepBatchWrite
    \/ SweepItemAppend
    \/ SweepFlushed
    \/ SweepFinal
    \/ SweepFinalFlushed
    \/ SweepReturn
    \/ FeedDeleteRecord

\* Both feeds are registered; every article is stored under one of them,
\* old, read or not, with every reason or none.
InitCleanup ==
    /\ now = Datetime(3, 1, FALSE)
    /\ \E feed_of \in [ArticleIds -> FeedIds], is_read \in BOOLEAN,
          reasons \in {{}, KeywordIds} :
          table = TableOf([a \in ArticleIds |->
                              Some(Article(a, feed_of[a], a, Datetime(1, 1, FALSE), is_read,
                                           IF is_read THEN Some(Datetime(1, 1, FALSE))
                                           ELSE None,
                                           FALSE, 0))],
                          [a \in ArticleIds |-> reasons])
                    \cup {FeedItem(f) : f \in FeedIds}
    /\ InitSweepVars
    /\ InitServiceVars

\* The call runs on one thread, nothing else writes to the table, and
\* every storage request is answered: a step that can be taken is taken.
SpecCleanupLive == InitCleanup /\ [][NextCleanup]_vars /\ WF_vars(NextCleanup)

\* Feeds and keywords, each stored or not; no article or every article
\* of feed 1, with every reason or none.
InitEntity ==
    /\ now = Datetime(3, 1, FALSE)
    /\ \E feeds \in SUBSET FeedIds, keywords \in SUBSET KeywordIds,
          stored \in {{}, ArticleIds}, reasons \in ReasonChoices :
          table = TableOf([a \in ArticleIds |->
                              IF a \in stored
                              THEN Some(Article(a, 1, a, Datetime(1, 1, FALSE), FALSE, None,
                                                FALSE, 0))
                              ELSE None],
                          [a \in ArticleIds |-> IF a \in stored THEN reasons ELSE {}])
                    \cup {FeedItem(f) : f \in feeds}
                    \cup {KeywordItem(k, k, 1, TRUE) : k \in keywords}
    /\ InitSweepVars
    /\ InitServiceVars

SpecEntity == InitEntity /\ [][NextEntity]_vars

\* Old articles of either feed, all read long ago or all unread, all with
\* every reason or all with none; both feeds are registered.
InitFault ==
    /\ now = Datetime(3, 1, FALSE)
    /\ \E feed_of \in [ArticleIds -> FeedIds], is_read \in BOOLEAN,
          reasons \in ReasonChoices :
          table = TableOf([a \in ArticleIds |->
                              Some(Article(a, feed_of[a], a, Datetime(1, 1, FALSE), is_read,
                                           IF is_read THEN Some(Datetime(1, 1, FALSE))
                                           ELSE None,
                                           FALSE, 0))],
                          [a \in ArticleIds |-> reasons])
                    \cup {FeedItem(f) : f \in FeedIds}
    /\ InitSweepVars
    /\ InitServiceVars

SpecFault == InitFault /\ [][NextFault]_vars

\* No key has been generated yet.
InitKey ==
    /\ now = Datetime(3, 1, FALSE)
    /\ table = {}
    /\ InitSweepVars
    /\ InitServiceVars

SpecKey == InitKey /\ [][NextKey]_vars

\* A reason record left by an earlier calculation, when the keyword had
\* weight old_weight.
OldReason(article_id, keyword_id, old_weight) ==
    ReasonItem(article_id, keyword_id, keyword_id,
               calculate_similarity(article_id, keyword_id),
               calculate_similarity(article_id, keyword_id) * old_weight)

Weights == {1, 2}

\* Article 1 is fresh from ingestion or was written back once (its
\* timestamps are then timezone-aware), with reasons of an earlier
\* calculation; article 2 is a bystander; the keywords are absent, active
\* or inactive.
InitRecalc ==
    /\ now = Datetime(3, 1, FALSE)
    /\ \E first \in Optional(BOOLEAN \X {{}, {1}, KeywordIds} \X Weights),
          second \in BOOLEAN,
          keywords \in [KeywordIds -> Optional(Weights \X BOOLEAN)] :
          table =
              (IF first = None THEN {}
               ELSE {ArticleItem(Article(1, 1, 1, Datetime(1, 1, first[1][1]),
                                         FALSE, None, FALSE, 0))}
                      \cup {OldReason(1, k, first[1][3]) : k \in first[1][2]})
              \cup (IF second
                    THEN {ArticleItem(Article(2, 1, 2, Datetime(1, 1, FALSE),
                                              FALSE, None, FALSE, 0))}
                           \cup {OldReason(2, k, 1) : k \in KeywordIds}
                    ELSE {})
              \cup {KeywordItem(k, k, keywords[k][1][1], keywords[k][1][2]) :
                       k \in {x \in KeywordIds : keywords[x] # None}}
    /\ InitSweepVars
    /\ InitServiceVars

SpecRecalc == InitRecalc /\ [][NextRecalc]_vars

\* The feeds are registered; nothing has been ingested yet.
InitFetch ==
    /\ now = Datetime(3, 1, FALSE)
    /\ table = {FeedItem(f) : f \in FeedIds}
    /\ InitSweepVars
    /\ InitServiceVars

SpecFetch == InitFetch /\ [][NextFetch]_vars

\* The service as constructed: an empty cache, no call in progress.
InitCache ==
    /\ now = Datetime(3, 1, FALSE)
    /\ table = {}
    /\ InitSweepVars
    /\ InitServiceVars

SpecCache == InitCache /\ [][NextCache]_vars

\* Any of the articles a call can name is stored, with score 0; no call
\* is in progress.
InitClient ==
    /\ now = Datetime(3, 1, FALSE)
    /\ \E stored \in SUBSET (1..BATCH_SIZE) : table = {ClientItem(a, 0) : a \in stored}
    /\ InitSweepVars
    /\ InitServiceVars

SpecClient == InitClient /\ [][NextClient]_vars

\* The store answers every request and every sleep ends.
SpecClientLive == SpecClient /\ WF_vars(ClientStep)

\* The feeds and the keywords are registered; nothing has been ingested
\* yet.
InitArticle ==
    /\ now = Datetime(3, 1, FALSE)
    /\ table = {FeedItem(f) : f \in FeedIds}
                 \cup {KeywordItem(k, k, 1, TRUE) : k \in KeywordIds}
    /\ InitSweepVars
    /\ InitServiceVars

SpecArticle == InitArticle /\ [][NextArticle]_vars

\* An age sweep running at the same time as mark_as_read, mark_as_saved
\* and recalculate_score on article 1: the steps of the three interleave
\* freely.
NextRace ==
    \/ delete_articles_by_age(1)
    \/ SweepQuery
    \/ SweepItemReasons
    \/ SweepBatchWrite
    \/ SweepItemAppend
    \/ SweepFlushed
    \/ SweepFinal
    \/ SweepFinalFlushed
    \/ SweepReturn
    \/ mark_as_read(1, TRUE)
    \/ mark_as_saved(1, TRUE)
    \/ ServicePut
    \/ recalculate_score(1)
    \/ RecalcCalculate
    \/ RecalcPutArticle
    \/ RecalcDeleteReasons
    \/ RecalcBatchWrite
    \/ RecalcWriteReasons

\* Every article is old and unread, with every reason or none; the
\* keywords are active.
InitRace ==
    /\ now = Datetime(3, 1, FALSE)
    /\ \E reasons \in ReasonChoices :
          table = TableOf([a \in ArticleIds |->
                              Some(Article(a, 1, a, Datetime(1, 1, FALSE), FALSE, None,
                                           FALSE, 0))],
                          [a \in ArticleIds |-> reasons])
                    \cup {KeywordItem(k, k, 1, TRUE) : k \in KeywordIds}
    /\ InitSweepVars
    /\ InitServiceVars

SpecRace == InitRace /\ [][NextRace]_vars

\* delete_feed(1) running at the same time as fetch_feed on feed 1: a run
\* of fetch_feed begins before delete_feed has returned, and the steps of
\* the two interleave freely.
NextFeedRace ==
    \/ delete_feed(1)
    \/ SweepQuery
    \/ SweepItemReasons
    \/ SweepBatchWrite
    \/ SweepItemAppend
    \/ SweepFlushed
    \/ SweepFinal
    \/ SweepFinalFlushed
    \/ FeedDeleteRecord
    \/ /\ sweep.pc # "done"
       /\ \E doc \in ArticleDocuments : fetch_feed(1, Some(doc))
    \/ FetchEntry
    \/ FetchSave
    \/ FetchBatchWrite
    \/ FetchPutFeed
    \/ FetchFinish

SpecFeedRace == InitFetch /\ [][NextFeedRace]_vars

(***************************************************************************)
(* Two requests served at the same time.  Each variable of a call holds    *)
(* the locals of the call whose request reaches the table next; the        *)
(* other thread's call waits in parked between two of its requests.        *)
(***************************************************************************)
\* The other thread's recalculate_score is the one that runs next.
SwitchRecalc ==
    /\ recalc # parked.recalc
    /\ recalc' = parked.recalc
    /\ parked' = [parked EXCEPT !.recalc = recalc]
    /\ UNCHANGED <<table, table0, now, sweep, lastRun, fetch, cache, threads, lock,
                   client, key_call, svc, lru>>

\* Two recalculate_score calls for article 1, and a keyword that is
\* switched on or off while they run.
NextScoreRace ==
    \/ recalculate_score(1)
    \/ RecalcCalculate
    \/ RecalcPutArticle
    \/ RecalcDeleteReasons
    \/ RecalcBatchWrite
    \/ RecalcWriteReasons
    \/ SwitchRecalc
    \/ \E keyword_id \in KeywordIds, is_active \in BOOLEAN :
          update_keyword(keyword_id, Some(is_active))
    \/ UpdatePut

\* Article 1 is fresh from ingestion, with the reasons of an earlier
\* calculation; both keywords are stored, active or not.
InitScoreRace ==
    /\ now = Datetime(3, 1, FALSE)
    /\ \E old \in {{}, KeywordIds}, keywords \in [KeywordIds -> BOOLEAN] :
          table =
              {ArticleItem(Article(1, 1, 1, Datetime(1, 1, FALSE), FALSE, None, FALSE, 0))}
              \cup {OldReason(1, k, 1) : k \in old}
              \cup {KeywordItem(k, k, 1, keywords[k]) : k \in KeywordIds}
    /\ InitSweepVars
    /\ InitServiceVars

SpecScoreRace == InitScoreRace /\ [][NextScoreRace]_vars

\* The other thread's ArticleService call is the one that runs next.
SwitchService ==
    /\ svc # parked.svc
    /\ svc' = parked.svc
    /\ parked' = [parked EXCEPT !.svc = svc]
    /\ UNCHANGED <<table, table0, now, sweep, lastRun, recalc, fetch, cache, threads,
                   lock, client, key_call, lru>>

\* One mark_as_read and one mark_as_saved of article 1, on two threads.
NextMarkRace ==
    \/ /\ parked.svc.op # "mark_as_read"
       /\ \E is_read \in BOOLEAN : mark_as_read(1, is_read)
    \/ /\ parked.svc.op # "mark_as_saved"
       /\ \E is_saved \in BOOLEAN : mark_as_saved(1, is_saved)
    \/ ServicePut
    \/ SwitchService

\* Article 1 is stored, fresh from ingestion, read or not, saved or not.
InitMarkRace ==
    /\ now = Datetime(3, 1, FALSE)
    /\ \E is_read \in BOOLEAN, is_saved \in BOOLEAN :
          table = {ArticleItem(Article(1, 1, 1, Datetime(1, 1, FALSE), is_read,
                                       IF is_read THEN Some(Datetime(2, 1, FALSE))
                                       ELSE None,
                                       is_saved, 0))}
    /\ InitSweepVars
    /\ InitServiceVars

SpecMarkRace == InitMarkRace /\ [][NextMarkRace]_vars

(***************************************************************************)
(* KeywordService.recalculate_all_scores.  The call keeps its cursor in    *)
(* listing.last_key, the items of the page it is visiting in article,      *)
(* the article ids it has called recalculate_score for in listing.listed,  *)
(* and in flag whether a score service is configured.                      *)
(***************************************************************************)
\* DynamoDBClient.query_articles_by_published_date without dates: GSI1,
\* newest first.
query_articles_by_published_date(t, limit, exclusive_start_key, page_cap) ==
    query_articles_with_filters(t, "published_at", None, limit, exclusive_start_key,
                                page_cap)

\* recalculate_all_scores, up to the loop.
recalculate_all_scores(configured) ==
    /\ svc.pc = "idle"
    /\ recalc.pc = "idle"
    /\ svc' = [IdleService EXCEPT !.op = "recalculate_all_scores",
                                  !.pc = IF configured THEN "query" ELSE "raised",
                                  !.flag = configured]
    /\ UNCHANGED <<table, notService>>

\* items, last_evaluated_key = query_articles_by_published_date(...)
RecalcAllQuery ==
    /\ svc.op = "recalculate_all_scores"
    /\ svc.pc = "query"
    /\ \E resp \in query_articles_by_published_date(table, BATCH_SIZE,
                                                    svc.listing.last_key, StorePage) :
          svc' = [svc EXCEPT !.pc = "visit",
                             !.article = Some(resp.items),
                             !.listing.last_key = resp.last_evaluated_key,
                             !.listing.queries = @ + 1]
    /\ UNCHANGED <<table, notService>>

\* for item in items: recalculate_score(article_id), the call itself.
RecalcAllVisit ==
    /\ svc.op = "recalculate_all_scores"
    /\ svc.pc = "visit"
    /\ svc.article[1] # <<>>
    /\ recalculate_score(Head(svc.article[1]).article_id)

\* The call returned: the next item of the page.  A call that raised
\* ends recalculate_all_scores.
RecalcAllNext ==
    /\ svc.op = "recalculate_all_scores"
    /\ svc.pc = "visit"
    /\ recalc.pc \in {"done", "raised"}
    /\ svc' = [svc EXCEPT !.pc = IF recalc.pc = "raised" THEN "raised" ELSE "visit",
                          !.article = Some(Tail(svc.article[1])),
                          !.listing.listed = Append(@, recalc.article_id)]
    /\ recalc' = IdleRecalc
    /\ UNCHANGED <<table, table0, now, sweep, lastRun, fetch, cache, threads, lock,
                   client, key_call, lru, parked>>

\* if not last_evaluated_key: break
RecalcAllPageEnd ==
    /\ svc.op = "recalculate_all_scores"
    /\ svc.pc = "visit"
    /\ svc.article[1] = <<>>
    /\ svc' = [svc EXCEPT !.pc = IF svc.listing.last_key = None THEN "returned"
                                 ELSE "query"]
    /\ UNCHANGED <<table, notService>>

NextRecalcAll ==
    \/ \E configured \in BOOLEAN : recalculate_all_scores(configured)
    \/ RecalcAllQuery
    \/ RecalcAllVisit
    \/ RecalcAllNext
    \/ RecalcAllPageEnd
    \/ RecalcCalculate
    \/ RecalcPutArticle
    \/ RecalcDeleteReasons
    \/ RecalcBatchWrite
    \/ RecalcWriteReasons

\* Some articles are stored as ingestion wrote them, published at the
\* same time or one after the other, with reasons of an earlier
\* calculation or none; the keywords are active or not.
InitRecalcAll ==
    /\ now = Datetime(3, 1, FALSE)
    /\ \E stored \in SUBSET ArticleIds, same_time \in BOOLEAN,
          old \in {{}, KeywordIds}, keywords \in [KeywordIds -> BOOLEAN] :
          table =
              {ArticleItem(Article(a, 1, a,
                                   Datetime(IF same_time THEN 1 ELSE a, 1, FALSE),
                                   FALSE, None, FALSE, 0)) : a \in stored}
              \cup {OldReason(a, k, 1) : a \in stored, k \in old}
              \cup {KeywordItem(k, k, 1, keywords[k]) : k \in KeywordIds}
    /\ InitSweepVars
    /\ InitServiceVars

SpecRecalcAll == InitRecalcAll /\ [][NextRecalcAll]_vars

\* Sweeps and listings, one call at a time, over an old unread article
\* with reasons and an old read one.
NextValidate ==
    \/ /\ svc.pc = "idle"
       /\ NextSweep
    \/ /\ Resting(sweep)
       /\ NextList

InitValidate ==
    /\ now = Datetime(3, 1, FALSE)
    /\ table = TableOf(<<Some(Article(1, 1, 1, Datetime(1, 1, FALSE), FALSE, None, FALSE, 0)),
                         Some(Article(2, 1, 2, Datetime(1, 1, FALSE), TRUE,
                                      Some(Datetime(1, 1, FALSE)), TRUE, ScoreOne))>>,
                       <<KeywordIds, {}>>)
    /\ InitSweepVars
    /\ InitServiceVars

SpecValidate == InitValidate /\ [][NextValidate]_vars

\* Ingestions and feed cascades, one call at a time, from registered
\* feeds with nothing ingested.
NextReingest ==
    \/ /\ Resting(sweep)
       /\ NextIngest
    \/ /\ Resting(fetch)
       /\ NextFeed

SpecReingest == InitFetch /\ [][NextReingest]_vars

(***************************************************************************)
(* DynamoDBClient.query_articles_by_importance_score.  The bounds are      *)
(* turned into reverse sort keys by the client's own generator and         *)
(* compared as strings with the stored GSI2SK.                             *)
(***************************************************************************)
Scores == 0..ScoreOne

\* The key condition on GSI2SK for the given and omitted bounds.
ScoreKeyCondition(min_score, max_score, k) ==
    LET max_reverse_key == client_generate_reverse_sort_key(min_score[1], ScoreOne, ScoreOne)[1]
        min_reverse_key == client_generate_reverse_sort_key(max_score[1], ScoreOne, ScoreOne)[1]
    IN  CASE min_score # None /\ max_score # None ->
                ~StrLess(k, min_reverse_key) /\ ~StrLess(max_reverse_key, k)
          [] min_score # None /\ max_score = None -> ~StrLess(max_reverse_key, k)
          [] min_score = None /\ max_score # None -> ~StrLess(k, min_reverse_key)
          [] OTHER -> TRUE

\* The items of all pages of the query.
query_articles_by_importance_score(t, min_score, max_score) ==
    {i \in t : /\ "GSI2PK" \in DOMAIN i
               /\ i.GSI2PK = "ARTICLE"
               /\ ScoreKeyCondition(min_score, max_score, i.GSI2SK)}

\* One range query; the call keeps its bounds with the items returned.
QueryByImportanceScore(min_score, max_score) ==
    /\ svc.pc = "idle"
    /\ svc' = [IdleService EXCEPT
                  !.pc = "returned",
                  !.op = "query_articles_by_importance_score",
                  !.result = Some([min_score |-> min_score, max_score |-> max_score,
                                   items |-> query_articles_by_importance_score(
                                                 table, min_score, max_score)])]
    /\ UNCHANGED <<table, notService>>

NextRange ==
    \/ \E min_score \in Optional(Scores), max_score \in Optional(Scores) :
          QueryByImportanceScore(min_score, max_score)
    \/ ServiceFinish

\* An article as fetch_feed stores it: published_at is the date of the
\* feed entry (no microseconds) or, without one, the time of ingestion.
IngestedArticle(a, published_at) ==
    [Article(a, 1, a, IF published_at.us = 0 THEN Datetime(3, 1, FALSE) ELSE published_at,
             FALSE, None, FALSE, 0)
        EXCEPT !.published_at = published_at]

\* The same article after one call has loaded it, changed it and put it
\* back.
WrittenBack(article, change) ==
    LET loaded == convert_item_to_article(ArticleItem(article))[1]
    IN  CASE change = "read" -> Article_mark_as_read(loaded)
          [] change = "saved" -> toggle_saved(loaded)
          [] change = "score" -> [loaded EXCEPT !.importance_score = ScoreOne]

\* The article when fetch_feed was built with a scorer.
ScoredAtIngestion(article, score) == [article EXCEPT !.importance_score = score]

\* Articles as the services leave them: ingested, or written back once.
ListProfiles(a) ==
    {IngestedArticle(a, Datetime(3, 0, FALSE)),
     IngestedArticle(a, Datetime(3, 1, FALSE)),
     IngestedArticle(a, Datetime(2, 1, FALSE))}
      \cup {ScoredAtIngestion(IngestedArticle(a, Datetime(3, 1, FALSE)), score) :
               score \in {1, ScoreOne}}
      \cup {WrittenBack(IngestedArticle(a, Datetime(3, 1, FALSE)), change) :
               change \in {"read", "saved", "score"}}

\* Ingested articles, each stored or not, with any score.
InitRange ==
    /\ now = Datetime(3, 1, FALSE)
    /\ \E scores \in [ArticleIds -> Optional(Scores)] :
          table = TableOf([a \in ArticleIds |->
                              IF scores[a] = None THEN None
                              ELSE Some(ScoredAtIngestion(
                                            IngestedArticle(a, Datetime(3, 1, FALSE)),
                                            scores[a][1]))],
                          [a \in ArticleIds |-> {}])
    /\ InitSweepVars
    /\ InitServiceVars

SpecRange == InitRange /\ [][NextRange]_vars

InitList ==
    /\ now = Datetime(3, 1, FALSE)
    /\ \E articles \in [ArticleIds -> UNION {Optional(ListProfiles(a)) : a \in ArticleIds}] :
          /\ \A a \in ArticleIds : articles[a] # None => articles[a][1].article_id = a
          /\ table = TableOf(articles, [a \in ArticleIds |-> {}])
    /\ InitSweepVars
    /\ InitServiceVars

SpecList == InitList /\ [][NextList]_vars

(***************************************************************************)
(* Reading the table back, for the properties.                             *)
(***************************************************************************)
ArticlesIn(t) == {i \in t : i.EntityType = "Article"}

ReasonsIn(t) == {i \in t : i.EntityType = "ImportanceReason"}

ReasonsUnder(t, article_id) == {i \in ReasonsIn(t) : i.PK = ArticlePK(article_id)}

ArticleIdsIn(t) == {i.article_id : i \in ArticlesIn(t)}

\* The articles the running sweep has removed so far.
DeletedArticleIds == ArticleIdsIn(table0) \ ArticleIdsIn(table)

\* The articles whose delete request the running sweep has sent but the
\* table has not applied yet.
PendingArticleDeletes ==
    {a \in ArticleIds : \E n \in DOMAIN sweep.batch :
        /\ sweep.batch[n].op = "delete"
        /\ sweep.batch[n].key = [PK |-> ArticlePK(a), SK |-> MetadataSK]}

\* The datetime a stored ISO string denotes.
DatetimeOf(str) ==
    CHOOSE dt \in {Datetime(s, us, tz) : s \in 0..9, us \in 0..9, tz \in BOOLEAN} :
        isoformat(dt) \o <<"Z">> = str

SweepDone(kind) == sweep.kind = kind /\ sweep.pc = "done"

C2_AgeSweepDeletesExactlyTheOld ==
    SweepDone("age") =>
        LET cutoff == Instant(MinusTicks(now, sweep.param))
            old == {i \in ArticlesIn(table0) :
                       Instant(DatetimeOf(i.created_at)) < cutoff}
        IN  /\ DeletedArticleIds = {i.article_id : i \in old}
            /\ sweep.result[1][1] = Cardinality(DeletedArticleIds)

(***************************************************************************)
(* C3.  delete_read_articles(hours) deletes exactly the read articles      *)
(* whose read_at is before now - hours: no unread article, and no article  *)
(* read inside the window.                                                 *)
(***************************************************************************)
C3_ReadSweepDeletesExactlyTheLongRead ==
    SweepDone("read") =>
        LET cutoff == Instant(MinusTicks(now, sweep.param))
            long_read == {i \in ArticlesIn(table0) :
                             /\ i.is_read
                             /\ i.read_at # None
                             /\ Instant(DatetimeOf(i.read_at[1])) < cutoff}
        IN  DeletedArticleIds = {i.article_id : i \in long_read}

(***************************************************************************)
(* C4.  A sweep run again right after a completed run of the same sweep    *)
(* (same argument, same clock, nothing written in between) changes nothing *)
(* in the table and returns (0, 0).                                        *)
(***************************************************************************)
SecondRun ==
    /\ sweep.kind \in {"age", "read"}
    /\ sweep.pc = "done"
    /\ lastRun.kind = sweep.kind
    /\ lastRun.param = sweep.param
    /\ lastRun.now = now
    /\ lastRun.result # None

C4_SweepIdempotent ==
    SecondRun => sweep.result = Some(<<0, 0>>) /\ table = table0

\* A second run after a first run that deleted articles and reasons.
C4_Witness ==
    /\ SecondRun
    /\ lastRun.result[1][1] >= 2
    /\ lastRun.result[1][2] >= 2

\* C5: delete_feed on an existing feed leaves no Article and no
\* ImportanceReason of that feed, removes the Feed record, touches nothing
\* else, and has counted one delete per article of the feed and one per
\* reason of those articles, however many pages and flushes that takes.
FeedArticleIds(t, feed_id) == {i.article_id : i \in {x \in ArticlesIn(t) : x.feed_id = feed_id}}

CascadeDone == sweep.kind = "feed" /\ sweep.pc = "done" /\ sweep.result = Some(TRUE)

OldReasons == ReasonsUnder(table0, recalc.article_id)

NewReasons == Range(recalc.reasons)

\* The new score has reached the table.
ScoreWritten == recalc.pc \in {"delete_reasons", "batch", "write_reasons", "done"}

LinkIndexesIn(t) == {i \in t : i.EntityType = "LinkIndex"}

\* C8: over any fetch_feed runs, one after the other, a URL that was
\* ingested has exactly one stored Article and exactly one LinkIndex
\* record, and a repeated URL makes no run raise.
C8_OneArticlePerUrl ==
    /\ fetch.pc = "raised" => fetch.batch = <<>>
    /\ fetch.pc \in {"idle", "done"} =>
          /\ \A a, b \in ArticlesIn(table) :
                generate_hash_from_url(a.link) = generate_hash_from_url(b.link) => a = b
          /\ \A a \in ArticlesIn(table) :
                Cardinality({i \in LinkIndexesIn(table) :
                                i.PK = LinkPK(generate_hash_from_url(a.link))}) = 1

(***************************************************************************)
(* C9, C10.  The bound of the cache and the entry it evicts.               *)
(***************************************************************************)
\* C9: whatever the interleaving of get_keyword_embedding and clear_cache
\* calls, the cache never holds more entries than its configured capacity
\* (and never two entries for one keyword).
C9_CacheWithinCapacity ==
    /\ Len(cache) <= KEYWORD_EMBEDDING_CACHE_SIZE
    /\ \A i, j \in DOMAIN cache : cache[i].k = cache[j].k => i = j

\* The cache is full and an insert into the full cache has happened.
C9_Witness ==
    /\ Len(cache) = KEYWORD_EMBEDDING_CACHE_SIZE
    /\ lru.evicted # None

\* C10: an insert into a full cache evicts exactly one entry, the one
\* whose last use (insertion or hit) lies furthest back.
C10_EvictsLeastRecentlyUsed ==
    lru.evicted # None => lru.evicted[1].keys = {lru.evicted[1].lru}

\* The evicted entry was not the oldest one: the oldest entry had been hit
\* after the evicted one was inserted, and is still cached.
C10_Witness ==
    /\ lru.evicted # None
    /\ lru.evicted[1].lru # lru.evicted[1].oldest
    /\ \E i \in DOMAIN cache : cache[i].k = lru.evicted[1].oldest

(***************************************************************************)
(* C11, C12.  Threads racing on the cache.                                 *)
(***************************************************************************)
\* The entries of the cache, whatever their order.
CacheEntries(c) == Range(c)

\* Thread t is at the second look-up and the keyword it computed has been
\* inserted by another thread since its first look-up.
LostRace(t) ==
    /\ threads[t].pc = "check"
    /\ CacheGet(cache, threads[t].keyword_text) # None

\* C11: a thread that finds its keyword cached at the second look-up
\* returns the cached embedding, which another call made, and drops its
\* own; the cache keeps exactly the entries it had, one of them for that
\* keyword, and nothing is evicted.
C11_SecondCheckReturnsCached ==
    [][\A t \in Threads :
          LostRace(t) /\ threads'[t] # threads[t] =>
              LET k == threads[t].keyword_text
              IN  /\ threads'[t].pc = "idle"
                  /\ threads'[t].result = CacheGet(cache, k)
                  /\ threads'[t].result # threads[t].embedding
                  /\ threads'[t].result[1].call # t
                  /\ CacheEntries(cache') = CacheEntries(cache)
                  /\ Len(cache') = Len(cache)
                  /\ Cardinality({i \in DOMAIN cache' : cache'[i].k = k}) = 1
                  /\ lru'.evicted = lru.evicted]_vars

\* A thread has returned another call's embedding after computing one of
\* its own, from a cache that was full.
C11_Witness ==
    \E t \in Threads :
        /\ threads[t].pc = "idle"
        /\ threads[t].embedding # None
        /\ threads[t].result # None
        /\ threads[t].result # threads[t].embedding
        /\ Len(cache) = KEYWORD_EMBEDDING_CACHE_SIZE
        /\ lru.evicted = None

\* C12: the lock is held only by a thread inside one of the two locked
\* blocks, never by a thread computing an embedding or waiting; so while a
\* thread computes, the lock is free or held by a thread that is running
\* its block, a waiting thread can always enter once the lock is free, and
\* in every state some thread or a new call can take a step.
C12_LockNotHeldWhileComputing ==
    /\ \A t \in Threads : lock = Some(t) <=> threads[t].pc \in {"first", "check"}
    /\ lock # None => lock[1] \in Threads
    /\ \A t \in Threads : threads[t].pc = "compute" =>
          /\ lock # Some(t)
          /\ \A u \in Threads \ {t} :
                /\ threads[u].pc \in {"lock_first", "lock_second"} =>
                      lock = None /\ ENABLED CacheAcquire(u)
                /\ threads[u].pc = "first" => ENABLED CacheFirstCheck(u)
                /\ threads[u].pc = "check" => ENABLED CacheSecondCheck(u)
    /\ lock # None => ENABLED (CacheFirstCheck(lock[1]) \/ CacheSecondCheck(lock[1]))
    /\ \A t \in Threads : threads[t].pc \in {"lock_first", "lock_second"} /\ lock = None =>
          ENABLED CacheAcquire(t)

\* One thread computes a missed keyword while the other holds the lock in
\* the first block with its keyword cached.
C12_Witness ==
    \E t, u \in Threads :
        /\ threads[t].pc = "compute"
        /\ threads[u].pc = "first"
        /\ lock = Some(u)
        /\ CacheGet(cache, threads[u].keyword_text) # None

(***************************************************************************)
(* C13, C14.  Retries of the storage client.                               *)
(***************************************************************************)
ThrottlingCodes == {"ProvisionedThroughputExceededException", "ThrottlingException"}

\* The table after every request of a batch has been served.
RECURSIVE ApplyAll(_, _)
ApplyAll(t, requests) ==
    IF requests = <<>> THEN t
    ELSE ApplyAll(ApplyRequest(t, Head(requests)), Tail(requests))

\* What holds at every point of a batch_write_item call.
BatchWriteBounded ==
    client.op = "batch_write_item" =>
        /\ client.attempt <= max_retries
        /\ client.calls <= max_retries + 1
        /\ \A i \in DOMAIN client.delays :
              /\ client.delays[i] - base_delay * (2 ^ (i - 1)) \in Jitters
              /\ i > 1 => client.delays[i] >= client.delays[i - 1]
        /\ \A i \in DOMAIN client.faults :
              i <= Len(client.delays) => client.faults[i] \in ThrottlingCodes
        /\ client.pc = "returned" => table = ApplyAll(table0, client.requests)
        /\ client.pc = "raised" /\ client.error[1] \in ThrottlingCodes =>
              /\ client.calls = max_retries + 1
              /\ Len(client.delays) = max_retries

\* C13: batch_write_item ends, by returning or by raising; it sends the
\* whole batch at most 1 + max_retries times, sleeping base_delay * 2^attempt
\* plus jitter before each retry of a throttled attempt; when it returns,
\* every put and delete of the batch is in the table; a throttling fault is
\* raised only by the last attempt.
C13_BatchWriteTerminates ==
    /\ []BatchWriteBounded
    /\ (client.op = "batch_write_item" /\ client.pc = "attempt")
          ~> (client.pc \in {"returned", "raised"})

\* A batch that changed the table has returned after max_retries throttled
\* attempts.
C13_Witness ==
    /\ client.op = "batch_write_item"
    /\ client.pc = "returned"
    /\ Len(client.faults) = max_retries
    /\ Len(client.requests) >= 2
    /\ table # table0

\* C14: an attempt is repeated only when it was a throttled attempt of
\* batch_write_item; put_item, get_item, query and delete_item make one
\* attempt, and whatever is raised is the fault the store gave last.
C14_RetryOnlyThrottledBatch ==
    client.pc # "idle" =>
        LET retried == SubSeq(client.faults, 1,
                              IF client.pc = "raised" THEN Len(client.faults) - 1
                              ELSE Len(client.faults))
        IN  /\ \A i \in DOMAIN retried :
                  client.op = "batch_write_item" /\ retried[i] \in ThrottlingCodes
            /\ Len(client.delays) = Len(retried)
            /\ client.calls = Len(retried) + (IF client.pc = "sleep" THEN 0 ELSE 1)
            /\ client.op # "batch_write_item" => client.calls = 1 /\ client.delays = <<>>
            /\ client.pc = "raised" =>
                  client.error = Some(client.faults[Len(client.faults)])
            /\ client.pc # "raised" => client.error = None

\* put_item has raised the throttling fault of its only attempt, and the
\* table is as it was.
C14_Witness ==
    /\ client.op = "put_item"
    /\ client.pc = "raised"
    /\ client.error = Some("ProvisionedThroughputExceededException")
    /\ client.calls = 1
    /\ table = table0

(***************************************************************************)
(* C15, C19.  A sweep or a cascade cut short by a storage fault.           *)
(***************************************************************************)
\* C15: once a storage call of a sweep or a cascade has faulted, the
\* operation is over with that fault and without a result, and nothing is
\* written any more; and at no point of a run does an item come back that
\* the run, or anything before it, had deleted.
C15_FaultStopsAndPropagates ==
    [][/\ sweep'.error # None => sweep'.pc = "raised" /\ sweep'.result = None
       /\ sweep.error # None => table' = table
       /\ sweep.pc # "idle" => table' \subseteq table]_vars

\* A sweep was cut short after a flush: articles it had deleted are gone,
\* articles it would have deleted are still stored.
C15_Witness ==
    /\ sweep.kind \in {"age", "read"}
    /\ sweep.pc = "raised"
    /\ sweep.error # None
    /\ sweep.deleted_articles >= BATCH_SIZE
    /\ DeletedArticleIds # {}
    /\ ArticleIdsIn(table) # {}

ScaledInt(score) == score \div (FineUnit \div SCORE_PRECISION)

C20_OutOfRangeRejected ==
    key_call.generator # "none" =>
        /\ key_call.key1 = None <=>
              key_call.score1 < 0 \/ key_call.score1 > key_call.max_score
        /\ key_call.key2 = None <=>
              key_call.score2 < 0 \/ key_call.score2 > key_call.max_score

\* A negative score and a score above max_score = 0.5 but below 1.0, both
\* refused by the storage client's generator.
C20_Witness ==
    /\ key_call.generator = "DynamoDBClient"
    /\ key_call.max_score = FineUnit \div 2
    /\ key_call.score1 = -1
    /\ key_call.score2 = (FineUnit \div 2) + 1
    /\ key_call.key1 = None
    /\ key_call.key2 = None

(***************************************************************************)
(* C17.  The Index D projection of stored articles.                        *)
(***************************************************************************)
StoredArticle(article_id) == get_item(table, ArticlePK(article_id), MetadataSK)

HasIndexD(item) == "GSI4PK" \in DOMAIN item /\ "GSI4SK" \in DOMAIN item

\* Every stored Article has the projection exactly when it is read, with
\* its stored read_at in the sort key.
IndexDIffRead ==
    \A i \in ArticlesIn(table) :
        /\ HasIndexD(i) <=> i.is_read
        /\ "GSI4PK" \in DOMAIN i <=> "GSI4SK" \in DOMAIN i
        /\ HasIndexD(i) =>
              /\ i.read_at # None
              /\ i.GSI4PK = "ARTICLE_READ"
              /\ i.GSI4SK = <<"t", "r", "u", "e", "#">> \o i.read_at[1]

\* C17: over any sequence of ingestions, mark_as_read, mark_as_saved and
\* recalculate_score calls, a stored Article has GSI4PK and GSI4SK exactly
\* when its is_read is true; once mark_as_read(id, false) on a stored
\* article is over the stored item has no projection, and once
\* mark_as_read(id, true) is over it has one, read_at embedded.
C17_IndexDIffRead ==
    /\ IndexDIffRead
    /\ /\ svc.op = "mark_as_read"
       /\ svc.pc \in {"returned", "raised"}
       /\ StoredArticle(svc.article_id) # None
       => (HasIndexD(StoredArticle(svc.article_id)[1]) <=> svc.flag)

(***************************************************************************)
(* C18.  The size of the write batches.                                    *)
(***************************************************************************)
\* The pending article keys of a sweep or a cascade: never more than
\* BATCH_SIZE, a full list is being flushed, and a flush of the list sends
\* no more than BATCH_SIZE deletes.
SweepPendingBounded ==
    /\ Len(sweep.delete_keys) <= BATCH_SIZE
    /\ Len(sweep.delete_keys) = BATCH_SIZE =>
          \/ sweep.pc = "batch" /\ sweep.ret = "flushed"
          \/ sweep.pc \in {"flushed", "raised"}
    /\ sweep.pc = "batch" /\ sweep.ret \in {"flushed", "final_flushed"} =>
          Len(sweep.batch) <= BATCH_SIZE

\* C18: every batch_write_item call of a sweep, a cascade, a
\* recalculation or an ingestion carries at most BATCH_SIZE puts and
\* deletes, and the pending delete list of a sweep never grows past
\* BATCH_SIZE keys and is flushed as soon as it is full.
C18_BatchWithinBatchSize ==
    /\ Len(sweep.batch) <= BATCH_SIZE
    /\ Len(recalc.batch) <= BATCH_SIZE
    /\ Len(fetch.batch) <= BATCH_SIZE
    /\ SweepPendingBounded

(***************************************************************************)
(* C21.  The index keys of a stored Article follow its fields.             *)
(***************************************************************************)
\* C21: over ingestions, read and save toggles and score updates, every
\* stored Article carries the importance sort key of its stored
\* importance_score, the feed-scoped keys of its stored feed_id and
\* article_id, and the creation sort key of its stored created_at.
C21_IndexKeysRederived ==
    \A i \in ArticlesIn(table) :
        /\ i.GSI2SK = generate_reverse_sort_key(i.importance_score, ScoreOne, ScoreOne)[1]
        /\ i.GSI5PK = <<"FEED", i.feed_id>>
        /\ i.GSI5SK = ArticlePK(i.article_id)
        /\ i.GSI3SK = i.created_at

\* recalculate_score has written back an article with a score other than
\* the one it was ingested with.
C21_Witness ==
    /\ recalc.pc = "delete_reasons"
    /\ recalc.article_item[1].importance_score = 0
    /\ StoredArticle(recalc.article_id) # None
    /\ StoredArticle(recalc.article_id)[1].importance_score > 0

(***************************************************************************)
(* C22.  Arguments are checked before the store is used.                   *)
(***************************************************************************)
\* C22: a sweep started with days <= 0 or hours <= 0 raises in its first
\* step, and a sweep that raises without a storage fault does so in its
\* first step, the table untouched; get_articles with an unknown sort_by
\* or filter value raises having sent no query.
C22_ValidationBeforeStorage ==
    /\ [][/\ sweep.pc = "idle" /\ sweep'.pc # "idle" /\ sweep'.param <= 0 =>
                /\ sweep'.pc = "raised"
                /\ sweep'.error = None
                /\ table' = table
          /\ sweep.pc # "raised" /\ sweep'.pc = "raised" /\ sweep'.error = None =>
                /\ sweep.pc = "idle"
                /\ sweep'.param <= 0
                /\ table' = table
          /\ svc' # svc => table' = table]_vars
    /\ [](/\ svc.op = "get_articles"
          /\ \/ svc.listing.sort_by \notin {"published_at", "importance_score"}
             \/ svc.listing.filter_by \notin Optional({"unread", "read", "saved"})
          => /\ svc.pc = "raised"
             /\ svc.listing.queries = 0
             /\ svc.listing.listed = <<>>)

\* Over stored articles a sweep with a window of 0 has raised, and so has
\* a listing sorted by an unknown field.
C22_Witness ==
    /\ sweep.pc = "raised"
    /\ sweep.param = 0
    /\ ArticlesIn(table) # {}
    /\ svc.op = "get_articles"
    /\ svc.pc = "raised"
    /\ svc.listing.sort_by = "title"
    /\ svc.listing.limit > 0

(***************************************************************************)
(* C23.  LinkIndex records of deleted articles.                            *)
(***************************************************************************)
\* C23: whenever no ingestion and no cascade is under way, every stored
\* LinkIndex record names a stored Article (so the link of a deleted
\* article is not found as a duplicate by the next ingestion).
C23_LinkIndexFollowsArticle ==
    Resting(sweep) /\ Resting(fetch) =>
        \A l \in LinkIndexesIn(table) : l.article_id \in ArticleIdsIn(table)

(***************************************************************************)
(* C24.  The score is the sum of the contributions of the active keywords. *)
(***************************************************************************)
KeywordsIn(t) == {i \in t : i.EntityType = "Keyword"}

RECURSIVE SumOfContributions(_, _)
SumOfContributions(article_id, keywords) ==
    IF keywords = {} THEN 0
    ELSE LET k == CHOOSE x \in keywords : TRUE
         IN  (calculate_similarity(article_id, k.text) * k.weight)
               + SumOfContributions(article_id, keywords \ {k})

\* The call has the result of calculate_score.
Calculated == recalc.pc \in {"put", "delete_reasons", "batch", "write_reasons", "done"}
                 /\ recalc.article # None

\* C24: the score calculate_score returns is the sum of similarity *
\* weight over the active keywords, it returns exactly one reason for
\* each of them, holding that similarity and that product, and none for
\* an inactive keyword; with no active keyword it returns 0 and no reason.
C24_ScoreIsSumOverActive ==
    Calculated =>
        LET active == {k \in KeywordsIn(table) : k.is_active}
            reasons == recalc.reasons
        IN  /\ recalc.score = SumOfContributions(recalc.article_id, active)
            /\ Len(reasons) = Cardinality(active)
            /\ \A k \in active :
                  \E i \in DOMAIN reasons :
                     /\ reasons[i].keyword_id = k.keyword_id
                     /\ reasons[i].article_id = recalc.article_id
                     /\ reasons[i].similarity_score =
                           calculate_similarity(recalc.article_id, k.text)
                     /\ reasons[i].contribution =
                           calculate_similarity(recalc.article_id, k.text) * k.weight
            /\ \A i \in DOMAIN reasons :
                  \E k \in active : reasons[i].keyword_id = k.keyword_id
            /\ active = {} => recalc.score = 0 /\ reasons = <<>>

\* An active and an inactive keyword are stored, the inactive one would
\* have contributed, and the score is not 0.
C24_Witness ==
    /\ recalc.pc = "put"
    /\ recalc.score # 0
    /\ \E k \in KeywordsIn(table) : k.is_active
    /\ \E k \in KeywordsIn(table) :
          ~k.is_active /\ calculate_similarity(recalc.article_id, k.text) # 0

(***************************************************************************)
(* C25.  Stored timestamps are read back.                                  *)
(***************************************************************************)
\* C25: every stored Article can be loaded again (each of its timestamps
\* is a string parse_datetime_string reads), so that no mark_as_read or
\* mark_as_saved call on a stored article raises.
C25_TimestampsRoundTrip ==
    /\ \A i \in ArticlesIn(table) :
          /\ parse_datetime_string(i.published_at) # None
          /\ parse_datetime_string(i.created_at) # None
          /\ i.read_at # None => parse_datetime_string(i.read_at[1]) # None
          /\ convert_item_to_article(i) # None
    /\ svc.op \in {"mark_as_read", "mark_as_saved"} => svc.pc # "raised"

(***************************************************************************)
(* C26, C27.  Listings.                                                    *)
(***************************************************************************)
\* The stored articles a listing with this filter is to return.
Matching(filter_by) == {i \in ArticlesIn(table) : FilterExpression(filter_by, i)}

ListingValid ==
    /\ svc.op = "get_articles"
    /\ valid_get_articles(svc.listing.sort_by, svc.listing.filter_by, svc.listing.limit)

\* The cursor chain has come to its end.
ListingDone == ListingValid /\ svc.pc = "returned" /\ svc.listing.last_key = None

\* A chain that ends has returned every matching article once and nothing
\* else.
ListingCompleteWhenDone ==
    /\ ListingValid =>
          \A i \in DOMAIN svc.listing.listed :
              \E m \in Matching(svc.listing.filter_by) :
                 m.article_id = svc.listing.listed[i].article_id
    /\ ListingDone =>
          /\ Len(svc.listing.listed) = Cardinality(Matching(svc.listing.filter_by))
          /\ \A m \in Matching(svc.listing.filter_by) :
                \E i \in DOMAIN svc.listing.listed :
                   svc.listing.listed[i].article_id = m.article_id

\* C26: for each filter, following the cursors of get_articles from the
\* first page on comes to an end without an error, and has then returned
\* every stored article that matches the filter exactly once and no
\* other article.
C26_ListingComplete ==
    /\ ListingCompleteWhenDone
    /\ ListingValid => svc.pc # "raised"

\* The pages so far, one after the other, are in non-increasing score order.
ImportanceOrdered ==
    (ListingValid /\ svc.listing.sort_by = "importance_score") =>
        \A i, j \in DOMAIN svc.listing.listed :
            i < j => svc.listing.listed[i].importance_score
                        >= svc.listing.listed[j].importance_score

\* The pages so far, one after the other, are newest first.
NewestFirst ==
    (ListingValid /\ svc.listing.sort_by = "published_at") =>
        \A i, j \in DOMAIN svc.listing.listed :
            i < j => Instant(svc.listing.listed[i].published_at)
                        >= Instant(svc.listing.listed[j].published_at)

\* C27: what get_articles has returned over the pages of one cursor chain
\* is in non-increasing importance_score order when sort_by is
\* importance_score, and newest first when sort_by is published_at.
C27_ListingOrdered == ImportanceOrdered /\ NewestFirst

(***************************************************************************)
(* C28.  Updates and deletes of absent entities.                           *)
(***************************************************************************)
\* The entity a call of the three services is aimed at is not in table t.
Absent(t, op, id) ==
    CASE op = "update_feed" -> get_feed(t, id) = None
      [] op \in {"update_keyword", "delete_keyword"} -> get_keyword(t, id) = None
      [] op \in {"mark_as_read", "mark_as_saved"} ->
            get_item(t, ArticlePK(id), MetadataSK) = None
      [] OTHER -> FALSE

NotFoundValue(op) == IF op = "delete_keyword" THEN Some(FALSE) ELSE None

\* A call aimed at an absent entity returns the not-found value in its
\* first step without a write; an update raises instead when its payload
\* is empty.
AbsentReturnsNotFound ==
    /\ (svc.pc = "idle" /\ svc'.pc # "idle" /\ Absent(table, svc'.op, svc'.article_id)) =>
          /\ table' = table
          /\ IF svc'.op \in {"update_feed", "update_keyword"} /\ ~svc'.flag
             THEN svc'.pc = "raised"
             ELSE svc'.pc = "returned" /\ svc'.result = NotFoundValue(svc'.op)
    /\ (sweep.pc = "idle" /\ sweep'.pc # "idle" /\ sweep'.kind = "feed"
          /\ get_feed(table, sweep'.param) = None) =>
          /\ table' = table
          /\ sweep'.pc = "done"
          /\ sweep'.result = Some(FALSE)

\* A call that writes returns a value other than the not-found value.
SuccessIsDistinct ==
    /\ (svc.pc \in {"put", "put_item", "delete_item"} /\ svc'.pc = "returned") =>
          svc'.result # NotFoundValue(svc.op)
    /\ (sweep.kind = "feed" /\ sweep.pc \notin {"idle", "done"} /\ sweep'.pc = "done") =>
          sweep'.result # Some(FALSE)

\* No call writes after it has returned, and a call about to write found
\* its entity.
NoWriteWhenAbsent ==
    /\ (svc.pc \in {"returned", "raised"} /\ svc' # svc) => table' = table
    /\ (svc' # svc /\ table' # table) => ~Absent(table, svc.op, svc.article_id)

\* C28: update_feed and update_keyword (with a payload that is not empty),
\* mark_as_read, mark_as_saved, delete_feed and delete_keyword aimed at an
\* absent entity return None (the updates) or False (the deletes), which no
\* successful call returns, and put and delete nothing; a lookup that
\* misses returns None.
C28_AbsentEntityNotFound ==
    /\ [][AbsentReturnsNotFound /\ SuccessIsDistinct /\ NoWriteWhenAbsent]_vars
    /\ [](/\ \A f \in FeedIds :
                (\A i \in table : i.PK # FeedPK(f)) => get_feed(table, f) = None
          /\ \A k \in KeywordIds :
                (\A i \in table : i.PK # KeywordPK(k)) => get_keyword(table, k) = None
          /\ \A a \in ArticleIds :
                (\A i \in table : i.PK # ArticlePK(a)) => get_article(table, a) = None)

\* update_feed of an absent feed has returned None while other entities
\* are stored.
C28_Witness ==
    /\ svc.pc = "returned"
    /\ svc.op = "update_feed"
    /\ svc.flag
    /\ Absent(table, svc.op, svc.article_id)
    /\ svc.result = None
    /\ table # {}

(***************************************************************************)
(* C29.  The counts of a fetch_feed run.                                   *)
(***************************************************************************)
\* The article ids the running fetch_feed has given out.
RunArticleIds == (fetch.next_id - fetch.created_articles)..(fetch.next_id - 1)

\* The Article records of the table that the run has written.
RunArticles == {i \in ArticlesIn(table) : i.article_id \in RunArticleIds}

\* Every entry looked at so far went into exactly one counter, and the
\* returned counts are the counters.
FetchCountsPartition ==
    /\ fetch.pc \in {"entry", "save", "batch", "feed_put", "done"} =>
          fetch.created_articles + fetch.skipped_duplicates + fetch.skipped_invalid
             + Len(fetch.entries) = fetch.total_entries
    /\ fetch.pc = "done" =>
          /\ fetch.entries = <<>>
          /\ fetch.result[1].created_articles + fetch.result[1].skipped_duplicates
                + fetch.result[1].skipped_invalid = fetch.result[1].total_entries
          /\ fetch.result[1].created_articles = fetch.created_articles

\* C29: when a fetch_feed run has returned, created_articles,
\* skipped_duplicates and skipped_invalid add up to total_entries, the run
\* has written created_articles Article records, and each of them has one
\* LinkIndex record for its link that names it.
C29_FetchCounts ==
    /\ FetchCountsPartition
    /\ fetch.pc = "done" =>
          /\ Cardinality(RunArticles) = fetch.result[1].created_articles
          /\ \A a \in RunArticles :
                Cardinality({i \in LinkIndexesIn(table) :
                                /\ i.PK = LinkPK(generate_hash_from_url(a.link))
                                /\ i.article_id = a.article_id}) = 1

(***************************************************************************)
(* C30.  The ranges of a persisted reason.  A similarity of 1.0 is         *)
(* ScoreOne, a contribution of 10.0 is 10 * ScoreOne.                      *)
(***************************************************************************)
\* The reason records of the running recalculation that are stored.
PersistedReasons == NewReasons \cap ReasonsUnder(table, recalc.article_id)

SimilarityInRange ==
    \A r \in PersistedReasons :
        -ScoreOne <= r.similarity_score /\ r.similarity_score <= ScoreOne

\* C30: every ImportanceReason record that recalculate_score has stored
\* has a similarity_score from -1.0 to 1.0 and a contribution from 0.0 to
\* 10.0, the keyword weights being in (0, 10].
C30_ReasonRanges ==
    ((recalc.pc = "batch" /\ recalc.ret = "done") \/ recalc.pc = "done") =>
        /\ SimilarityInRange
        /\ \A r \in PersistedReasons :
              0 <= r.contribution /\ r.contribution <= 10 * ScoreOne

(***************************************************************************)
(* C31.  The hash of a LinkIndex and the hash of the duplicate check.      *)
(***************************************************************************)
\* An entry was accepted in this step: the LinkIndex queued for it has the
\* hash that _is_duplicate computes from the entry's link.
StoredHashIsLookupHash ==
    (fetch.pc = "entry" /\ fetch'.created_articles = fetch.created_articles + 1) =>
        fetch'.items_to_save[Len(fetch'.items_to_save)].url_hash
            = generate_hash_from_url(Head(fetch.entries).link[1])

\* Two links that differ in one trailing slash only have one hash.
SlashIgnored ==
    \A l \in Links :
        generate_hash_from_url(l) = generate_hash_from_url([l EXCEPT !.slash = ~l.slash])

\* C31: for every link fetch_feed accepts, the url_hash of the LinkIndex
\* record made for it is the hash _is_duplicate computes from that link,
\* and links that differ only in a trailing slash have the same hash.
C31_HashOfNormalizedUrl == [][StoredHashIsLookupHash]_vars /\ []SlashIgnored

(***************************************************************************)
(* C32.  Range queries by importance score.                                *)
(***************************************************************************)
RangeQueryDone == svc.op = "query_articles_by_importance_score" /\ svc.pc = "returned"

\* The stored articles whose score lies within the given bounds.
InScoreRange(min_score, max_score) ==
    {i \in ArticlesIn(table) :
        /\ min_score # None => i.importance_score >= min_score[1]
        /\ max_score # None => i.importance_score <= max_score[1]}

\* The client's key for each bound of a finished range query is the key
\* the Article model stores for that score.
ClientKeyIsStoredKey ==
    RangeQueryDone =>
        \A bound \in {svc.result[1].min_score, svc.result[1].max_score} \ {None} :
            client_generate_reverse_sort_key(bound[1], ScoreOne, ScoreOne)
               = generate_reverse_sort_key(bound[1], ScoreOne, ScoreOne)

\* A finished range query has returned the articles within its bounds.
RangeQueryReturnsRange ==
    RangeQueryDone =>
        svc.result[1].items = InScoreRange(svc.result[1].min_score, svc.result[1].max_score)

\* C32: the key the storage client computes for a bound is the key the
\* Article model stores for that score, and the range query returns
\* exactly the stored articles whose importance_score lies within the
\* bounds, whichever of the two bounds are given.
C32_RangeQueryExact ==
    /\ ClientKeyIsStoredKey
    /\ RangeQueryReturnsRange

(***************************************************************************)
(* C33.  The stored score and the stored reasons after a recalculation.    *)
(***************************************************************************)
RECURSIVE StoredContributions(_)
StoredContributions(reasons) ==
    IF reasons = {} THEN 0
    ELSE LET r == CHOOSE x \in reasons : TRUE
         IN  r.contribution + StoredContributions(reasons \ {r})

\* recalculate_score has returned for an article it found.
RecalcReturned == recalc.pc = "done" /\ recalc.article_item # None

\* The stored reasons of the article: one for each active keyword, none
\* for any other; for an absent article nothing was written or deleted.
ReasonsMatchActiveKeywords ==
    /\ RecalcReturned =>
          LET stored == ReasonsUnder(table, recalc.article_id)
              active == {k \in KeywordsIn(table) : k.is_active}
          IN  /\ \A k \in active :
                    Cardinality({r \in stored : r.keyword_id = k.keyword_id}) = 1
              /\ \A r \in stored : \E k \in active : r.keyword_id = k.keyword_id
    /\ (recalc.pc = "done" /\ recalc.article_item = None) => table = table0

\* The stored score is the sum of the stored contributions clamped into
\* [0.0, 1.0].
ScoreIsClampedSum ==
    RecalcReturned =>
        StoredArticle(recalc.article_id)[1].importance_score
           = Max(0, Min(StoredContributions(ReasonsUnder(table, recalc.article_id)),
                        ScoreOne))

\* C33: after recalculate_score has returned, the stored importance_score
\* of the article equals the sum of the contributions of its stored
\* reasons, and the stored reasons are one per active keyword and none for
\* any other keyword; on an absent article nothing is written or deleted.
C33_ScoreIsSumOfStoredReasons ==
    /\ ReasonsMatchActiveKeywords
    /\ RecalcReturned =>
          StoredArticle(recalc.article_id)[1].importance_score
             = StoredContributions(ReasonsUnder(table, recalc.article_id))

(***************************************************************************)
(* C34.  Deletes by a sweep against writers that read before them.         *)
(***************************************************************************)
\* No call is between its first and its last step.
Quiescent ==
    /\ sweep.pc \in {"idle", "done", "raised"}
    /\ svc.pc \in {"idle", "returned", "raised"}
    /\ recalc.pc \in {"idle", "done", "raised"}

\* C34: once an age sweep has deleted every article and every call has
\* finished, no Article record is stored and no ImportanceReason record
\* of a deleted article is stored, also when mark_as_read, mark_as_saved or
\* recalculate_score had read the article before the delete and wrote
\* after it.
C34_DeletedStaysDeleted ==
    (Quiescent /\ sweep.pc = "done" /\ sweep.deleted_articles >= NumArticles) =>
        \A a \in ArticleIds :
            /\ StoredArticle(a) = None
            /\ ReasonsUnder(table, a) = {}

(***************************************************************************)
(* C35.  fetch_feed against delete_feed of the same feed.                  *)
(***************************************************************************)
\* C35: when delete_feed(F) has returned True and the fetch_feed(F) runs
\* that began before it returned have finished, the store holds no Feed
\* record of F and no Article or ImportanceReason record of F.
C35_FeedGoneAfterRace ==
    (/\ sweep.kind = "feed"
     /\ sweep.pc = "done"
     /\ sweep.result = Some(TRUE)
     /\ fetch.pc \in {"idle", "done", "raised"}) =>
        /\ get_feed(table, sweep.param) = None
        /\ FeedArticleIds(table, sweep.param) = {}
        /\ \A r \in ReasonsIn(table) :
              \E i \in ArticlesIn(table) : i.article_id = r.article_id

\* Both recalculate_score calls for the article have returned.
BothRecalculated ==
    /\ recalc.pc = "done" /\ recalc.article # None
    /\ parked.recalc.pc = "done" /\ parked.recalc.article # None

\* The stored score and the stored reasons are those one call computed.
WrittenBy(call) ==
    /\ StoredArticle(1) # None
    /\ StoredArticle(1)[1].importance_score = call.article[1].importance_score
    /\ ReasonsUnder(table, 1) = Range(call.reasons)

\* C36: when two recalculate_score calls for the same article have both
\* finished, the stored reasons are exactly the reasons computed by the
\* call whose score is the stored one: never one call's score with the
\* other call's reasons, nor a union of both reason sets.
C36_ReasonsOfTheStoredScore ==
    BothRecalculated => WrittenBy(recalc) \/ WrittenBy(parked.recalc)

\* The mark_as_read and the mark_as_saved of the two threads have both
\* ended.
BothMarked ==
    /\ {svc.op, parked.svc.op} = {"mark_as_read", "mark_as_saved"}
    /\ svc.pc \in {"returned", "raised"}
    /\ parked.svc.pc \in {"returned", "raised"}

\* The records that the calls which returned have put.
PutRecords ==
    {ArticleItem(call.article[1]) :
        call \in {c \in {svc, parked.svc} : c.pc = "returned" /\ c.article # None}}

\* The stored article is the whole record of one put, never a blend of
\* two; a put replaces the whole item.
StoredIsOnePut ==
    /\ (BothMarked /\ PutRecords # {}) => StoredArticle(1)[1] \in PutRecords
    /\ [][svc.pc = "put" /\ svc'.pc = "returned" /\ parked' = parked
             => StoredArticle(1)' = Some(ArticleItem(svc.article[1]))]_vars

\* C37: when mark_as_read and mark_as_saved run concurrently on one
\* article, both complete without error and the stored article is the
\* complete record put by one of them, never a field-by-field blend.
C37_LastWriterWins ==
    BothMarked =>
        /\ svc.pc = "returned" /\ parked.svc.pc = "returned"
        /\ StoredArticle(1)[1] \in PutRecords

\* How often recalculate_score was called for the article.
TimesVisited(article_id) ==
    Cardinality({i \in DOMAIN svc.listing.listed : svc.listing.listed[i] = article_id})

\* Without a score service the call raises before its first query.
RaisesWhenNotConfigured ==
    (svc.op = "recalculate_all_scores" /\ ~svc.flag)
        => svc.pc = "raised" /\ svc.listing.queries = 0

\* Every stored article has had its call once the listing has no article
\* left that the call did not visit.
EveryArticleVisited ==
    (svc.op = "recalculate_all_scores" /\ svc.pc = "returned")
        => \A a \in ArticleIdsIn(table) : TimesVisited(a) >= 1

\* C38: recalculate_all_scores raises before any query when no score
\* service is configured; otherwise, when it has ended, it has called
\* recalculate_score exactly once for every stored article, across all
\* pages of the listing.
C38_EveryArticleOnce ==
    /\ RaisesWhenNotConfigured
    /\ (svc.op = "recalculate_all_scores" /\ svc.flag
           /\ svc.pc \in {"returned", "raised"})
          => /\ svc.pc = "returned"
             /\ \A a \in ArticleIdsIn(table) : TimesVisited(a) = 1

\* The loop is left with nothing of the page unvisited, and only after a
\* response without a cursor (an empty page comes without one).
LoopLeftAtTheEnd ==
    sweep.pc = "final" => sweep.page = <<>> /\ sweep.last_evaluated_key = None

\* A key is queued for deletion only while its record is stored and the
\* key is not already waiting in delete_keys: no record is queued twice.
QueuedOnce ==
    [][(sweep.pc = "append" /\ Len(sweep'.delete_keys) > Len(sweep.delete_keys))
          => LET key == KeyOf(Head(sweep.page))
             IN  /\ key \notin Range(sweep.delete_keys)
                 /\ get_item(table, key.PK, key.SK) # None]_vars

\* The count of deleted articles is the number of articles removed.
CountedOnce ==
    sweep.pc \in {"return", "done"}
        => sweep.deleted_articles
              = Cardinality(ArticlesIn(table0)) - Cardinality(ArticlesIn(table))

\* C39: every sweep and every feed cascade terminates: with no concurrent
\* insert the pagination loop stops, on an empty page or on a response
\* without a cursor, and no record is queued for deletion or counted more
\* than once.
C39_CleanupTerminates ==
    /\ (sweep.pc = "query") ~> (sweep.pc = "done")
    /\ []LoopLeftAtTheEnd
    /\ QueuedOnce
    /\ []CountedOnce

\* A sweep over more than one page has returned with every article
\* deleted.
C39_Witness ==
    /\ sweep.pc = "done"
    /\ sweep.kind = "age"
    /\ sweep.deleted_articles = NumArticles
    /\ NumArticles > BATCH_SIZE

\* The step is a mark_as_read(id, true) on a stored article that is
\* already read, up to its put_item.
RepeatedMarkAsRead ==
    /\ svc.pc = "idle"
    /\ svc'.op = "mark_as_read"
    /\ svc'.flag
    /\ StoredArticle(svc'.article_id) # None
    /\ StoredArticle(svc'.article_id)[1].is_read

====
